---- MODULE Spec2Model ----
(***************************************************************************)
(* A model of the ZapScript parser (package zapscript).                    *)
(*                                                                         *)
(* Text is a sequence of runes; a rune is a one-character string ("a",     *)
(* "|", ...) or one of the named runes below.  The scanners are the        *)
(* methods of ScriptReader, written as operators over the reader record    *)
(* [in, pos, last] and returning the reader they leave behind together     *)
(* with their Go results.  A Go loop is a RECURSIVE operator whose         *)
(* parameters are the loop's variables.                                    *)
(***************************************************************************)
EXTENDS Integers, Sequences, FiniteSets, TLC

VARIABLES input, phase, script, traitValue, expressions, evaluated, maps, advs

vars == <<input, phase, script, traitValue, expressions, evaluated, maps, advs>>

\* v bound to a name in F: the value of a call, used by what follows it
With(v, F(_)) == F(v)

(***************************************************************************)
(* Runes                                                                   *)
(***************************************************************************)
\* U+0000, the value of the package variable eof.
NUL == "NUL"
\* U+FFFD, which utf8.DecodeRune also returns for a malformed sequence.
RuneError == "FFFD"
LF == "LF"
CR == "CR"
TAB == "TAB"

eof == NUL

SymCmdStart == "*"
SymCmdSep == "|"
SymEscapeSeq == "^"
SymArgStart == ":"
SymArgSep == ","
SymArgDoubleQuote == "\""
SymArgSingleQuote == "'"
SymAdvArgStart == "?"
SymAdvArgSep == "&"
SymAdvArgEq == "="
SymJSONStart == "{"
SymJSONEnd == "}"
SymJSONEscapeSeq == "\\"
SymJSONString == "\""
SymInputMacroEscapeSeq == "\\"
SymInputMacroExtStart == "{"
SymInputMacroExtEnd == "}"
SymExpressionStart == "["
SymExpressionEnd == "]"
SymMediaTitleStart == "@"
SymMediaTitleSep == "/"
TokExpStart == "E000"
TokExprEnd == "E001"

LowerSeq == <<"a","b","c","d","e","f","g","h","i","j","k","l","m",
              "n","o","p","q","r","s","t","u","v","w","x","y","z">>
UpperSeq == <<"A","B","C","D","E","F","G","H","I","J","K","L","M",
              "N","O","P","Q","R","S","T","U","V","W","X","Y","Z">>
Range(s) == {s[i] : i \in DOMAIN s}
Lower == Range(LowerSeq)
Upper == Range(UpperSeq)
Digit == {"0","1","2","3","4","5","6","7","8","9"}

isCmdName(ch) == ch \in Lower \cup Upper \cup Digit \cup {"."}

isAdvArgName(ch) == ch \in Lower \cup Upper \cup Digit \cup {"_"}

isWhitespace(ch) == ch \in {" ", TAB, LF, CR}

(***************************************************************************)
(* Errors: the package's error values, and the two failures of the cursor  *)
(* (fmt.Errorf("failed to unread rune: %w"), errors.New("rune error")).    *)
(* fmt.Errorf("parse error at %d: %w") keeps the identity errors.Is sees,  *)
(* so a wrapped error is modelled by the error it wraps.                   *)
(***************************************************************************)
nil == "nil"
ErrUnexpectedEOF == "ErrUnexpectedEOF"
ErrInvalidCmdName == "ErrInvalidCmdName"
ErrInvalidAdvArgName == "ErrInvalidAdvArgName"
ErrEmptyCmdName == "ErrEmptyCmdName"
ErrEmptyZapScript == "ErrEmptyZapScript"
ErrUnmatchedQuote == "ErrUnmatchedQuote"
ErrInvalidJSON == "ErrInvalidJSON"
ErrUnmatchedInputMacroExt == "ErrUnmatchedInputMacroExt"
ErrUnmatchedExpression == "ErrUnmatchedExpression"
ErrUnmatchedArrayBracket == "ErrUnmatchedArrayBracket"
ErrInvalidTraitKey == "ErrInvalidTraitKey"
errUnreadRune == "failed to unread rune"
errPeekRune == "rune error"
ErrBadExpressionReturn == "ErrBadExpressionReturn"
\* fmt.Errorf("failed to evaluate expression %q: %w") around the engine's error
errEvalExpression == "failed to evaluate expression"

(***************************************************************************)
(* strings.TrimSpace, strings.ToLower, strings.Index over rune sequences   *)
(***************************************************************************)
\* The runes of this model that unicode.IsSpace accepts.
isSpace(ch) == ch \in {" ", TAB, LF, CR}

RECURSIVE TrimLeft(_)
TrimLeft(s) ==
    IF s # <<>> /\ isSpace(Head(s)) THEN TrimLeft(Tail(s)) ELSE s

RECURSIVE TrimRight(_)
TrimRight(s) ==
    IF s # <<>> /\ isSpace(s[Len(s)])
    THEN TrimRight(SubSeq(s, 1, Len(s) - 1))
    ELSE s

TrimSpace(s) == TrimRight(TrimLeft(s))

ToLowerRune(ch) ==
    IF ch \in Upper
    THEN LowerSeq[CHOOSE i \in DOMAIN UpperSeq : UpperSeq[i] = ch]
    ELSE ch

ToLower(s) == [i \in DOMAIN s |-> ToLowerRune(s[i])]

\* strings.Index(s, string(ch)) as a 1-based index, 0 for Go's -1.
Index(s, ch) ==
    IF \E i \in DOMAIN s : s[i] = ch
    THEN CHOOSE i \in DOMAIN s : s[i] = ch /\ \A j \in 1..(i - 1) : s[j] # ch
    ELSE 0

(***************************************************************************)
(* The cursor: ScriptReader over a bufio.Reader.                           *)
(*   in   the runes of the input                                           *)
(*   pos  sr.pos, which is also the number of runes the bufio.Reader has   *)
(*        handed out and not taken back                                    *)
(*   last bufio's lastRuneSize >= 0: the last operation on the reader was  *)
(*        a ReadRune that returned a rune.  ReadRune at the end of the     *)
(*        input, Peek and UnreadRune all reset it, and UnreadRune fails    *)
(*        with ErrInvalidUnreadRune when it is not set.                    *)
(***************************************************************************)
NewParser(value) == [in |-> value, pos |-> 0, last |-> FALSE]

read(sr) ==
    IF sr.pos < Len(sr.in)
    THEN [sr |-> [sr EXCEPT !.pos = @ + 1, !.last = TRUE],
          ch |-> sr.in[sr.pos + 1], err |-> nil]
    ELSE [sr |-> [sr EXCEPT !.last = FALSE], ch |-> eof, err |-> nil]

unread(sr) ==
    IF sr.last
    THEN [sr |-> [sr EXCEPT !.pos = @ - 1, !.last = FALSE], err |-> nil]
    ELSE [sr |-> sr, err |-> errUnreadRune]

peek(sr) ==
    LET after == [sr EXCEPT !.last = FALSE] IN
    IF sr.pos < Len(sr.in)
    THEN IF sr.in[sr.pos + 1] = RuneError
         THEN [sr |-> after, ch |-> RuneError, err |-> errPeekRune]
         ELSE [sr |-> after, ch |-> sr.in[sr.pos + 1], err |-> nil]
    ELSE [sr |-> after, ch |-> eof, err |-> nil]

skip(sr) == With(read(sr), LAMBDA r : [sr |-> r.sr, err |-> r.err])

\* a faulty checkEndOfCmd: the second separator is seen but not skipped
checkEndOfCmdNoSkip(sr, ch) ==
    IF ch # SymCmdSep
    THEN [sr |-> sr, eoc |-> FALSE, err |-> nil]
    ELSE With(peek(sr), LAMBDA p :
         IF p.err # nil
         THEN [sr |-> p.sr, eoc |-> FALSE, err |-> p.err]
         ELSE [sr |-> p.sr, eoc |-> p.ch \in {eof, SymCmdSep}, err |-> nil])

checkEndOfCmd(sr, ch) ==
    IF ch # SymCmdSep
    THEN [sr |-> sr, eoc |-> FALSE, err |-> nil]
    ELSE With(peek(sr), LAMBDA p :
         IF p.err # nil
         THEN [sr |-> p.sr, eoc |-> FALSE, err |-> p.err]
         ELSE IF p.ch = eof
         THEN [sr |-> p.sr, eoc |-> TRUE, err |-> nil]
         ELSE IF p.ch = SymCmdSep
         THEN With(skip(p.sr), LAMBDA s :
              [sr |-> s.sr, eoc |-> s.err = nil, err |-> s.err])
         ELSE [sr |-> p.sr, eoc |-> FALSE, err |-> nil])

\* a faulty parseEscapeSeq: an unknown escape keeps its caret
parseEscapeSeqKeepCaret(sr) ==
    With(read(sr), LAMBDA r :
    IF r.err # nil THEN [sr |-> r.sr, val |-> <<>>, err |-> r.err]
    ELSE IF r.ch = eof THEN [sr |-> r.sr, val |-> <<>>, err |-> nil]
    ELSE IF r.ch = "n" THEN [sr |-> r.sr, val |-> <<LF>>, err |-> nil]
    ELSE IF r.ch = "r" THEN [sr |-> r.sr, val |-> <<CR>>, err |-> nil]
    ELSE IF r.ch = "t" THEN [sr |-> r.sr, val |-> <<TAB>>, err |-> nil]
    ELSE IF r.ch \in {SymEscapeSeq, SymArgDoubleQuote, SymArgSingleQuote}
    THEN [sr |-> r.sr, val |-> <<r.ch>>, err |-> nil]
    ELSE [sr |-> r.sr, val |-> <<SymEscapeSeq, r.ch>>, err |-> nil])

parseEscapeSeq(sr) ==
    With(read(sr), LAMBDA r :
    IF r.err # nil THEN [sr |-> r.sr, val |-> <<>>, err |-> r.err]
    ELSE IF r.ch = eof THEN [sr |-> r.sr, val |-> <<>>, err |-> nil]
    ELSE IF r.ch = "n" THEN [sr |-> r.sr, val |-> <<LF>>, err |-> nil]
    ELSE IF r.ch = "r" THEN [sr |-> r.sr, val |-> <<CR>>, err |-> nil]
    ELSE IF r.ch = "t" THEN [sr |-> r.sr, val |-> <<TAB>>, err |-> nil]
    ELSE [sr |-> r.sr, val |-> <<r.ch>>, err |-> nil])

(***************************************************************************)
(* Expressions: [[...]] to U+E000 ... U+E001                               *)
(***************************************************************************)
\* the variables of the loop at the start of its next turn
parseExpressionLoopAgain(sr, rawExpr) ==
    [next |-> TRUE, sr |-> sr, rawExpr |-> rawExpr]

\* a faulty turn: the first "]" ends the expression, whatever follows it
parseExpressionLoopTurnFirstEnd(sr, rawExpr) ==
    With(read(sr), LAMBDA r :
    IF r.err # nil THEN [sr |-> r.sr, val |-> rawExpr, err |-> r.err]
    ELSE IF r.ch = eof
    THEN [sr |-> r.sr, val |-> rawExpr, err |-> ErrUnmatchedExpression]
    ELSE IF r.ch = SymExpressionEnd
    THEN [sr |-> r.sr, val |-> Append(rawExpr, TokExprEnd), err |-> nil]
    ELSE parseExpressionLoopAgain(r.sr, Append(rawExpr, r.ch)))

parseExpressionLoopTurn(sr, rawExpr) ==
    With(read(sr), LAMBDA r :
    IF r.err # nil THEN [sr |-> r.sr, val |-> rawExpr, err |-> r.err]
    ELSE IF r.ch = eof
    THEN [sr |-> r.sr, val |-> rawExpr, err |-> ErrUnmatchedExpression]
    ELSE IF r.ch = SymExpressionEnd
    THEN With(peek(r.sr), LAMBDA p :
         IF p.err # nil THEN [sr |-> p.sr, val |-> rawExpr, err |-> p.err]
         ELSE IF p.ch = SymExpressionEnd
         THEN With(skip(p.sr), LAMBDA s :
              [sr |-> s.sr, val |-> Append(rawExpr, TokExprEnd), err |-> s.err])
         ELSE parseExpressionLoopAgain(p.sr, Append(rawExpr, r.ch)))
    ELSE parseExpressionLoopAgain(r.sr, Append(rawExpr, r.ch)))

\* the turns of the loop, until one returns
RECURSIVE parseExpressionLoopRun(_)
parseExpressionLoopRun(st) ==
    IF "next" \in DOMAIN st
    THEN parseExpressionLoopRun(parseExpressionLoopTurn(st.sr, st.rawExpr))
    ELSE st

parseExpressionLoop(sr, rawExpr) ==
    parseExpressionLoopRun(parseExpressionLoopAgain(sr, rawExpr))

parseExpression(sr) ==
    With(read(sr), LAMBDA r :
    IF r.err # nil THEN [sr |-> r.sr, val |-> <<TokExpStart>>, err |-> r.err]
    ELSE IF r.ch # SymExpressionStart
    THEN With(unread(r.sr), LAMBDA u :
         IF u.err # nil
         THEN [sr |-> u.sr, val |-> <<TokExpStart>>, err |-> u.err]
         ELSE [sr |-> u.sr, val |-> <<SymExpressionStart>>, err |-> nil])
    ELSE parseExpressionLoop(r.sr, <<TokExpStart>>))

(***************************************************************************)
(* Quoted literals                                                         *)
(***************************************************************************)
\* the variables of the loop at the start of its next turn
parseQuotedArgLoopAgain(sr, start, arg) ==
    [next |-> TRUE, sr |-> sr, start |-> start, arg |-> arg]

parseQuotedArgLoopTurn(sr, start, arg) ==
    With(read(sr), LAMBDA r :
    IF r.err # nil THEN [sr |-> r.sr, val |-> arg, err |-> r.err]
    ELSE IF r.ch = eof THEN [sr |-> r.sr, val |-> arg, err |-> ErrUnmatchedQuote]
    ELSE IF r.ch = SymEscapeSeq
    THEN With(parseEscapeSeq(r.sr), LAMBDA e :
         IF e.err # nil THEN [sr |-> e.sr, val |-> arg, err |-> e.err]
         ELSE parseQuotedArgLoopAgain(e.sr, start, arg \o e.val))
    ELSE IF r.ch = SymExpressionStart
    THEN With(parseExpression(r.sr), LAMBDA x :
         IF x.err # nil THEN [sr |-> x.sr, val |-> arg, err |-> x.err]
         ELSE parseQuotedArgLoopAgain(x.sr, start, arg \o x.val))
    ELSE IF r.ch = start THEN [sr |-> r.sr, val |-> arg, err |-> nil]
    ELSE parseQuotedArgLoopAgain(r.sr, start, Append(arg, r.ch)))

\* the turns of the loop, until one returns
RECURSIVE parseQuotedArgLoopRun(_)
parseQuotedArgLoopRun(st) ==
    IF "next" \in DOMAIN st
    THEN parseQuotedArgLoopRun(parseQuotedArgLoopTurn(st.sr, st.start, st.arg))
    ELSE st

parseQuotedArgLoop(sr, start, arg) ==
    parseQuotedArgLoopRun(parseQuotedArgLoopAgain(sr, start, arg))

parseQuotedArg(sr, start) == parseQuotedArgLoop(sr, start, <<>>)

(***************************************************************************)
(* encoding/json: json.Unmarshal into an `any` followed by json.Marshal.   *)
(* jsonValue reads one JSON value of text s from index i and returns the   *)
(* index after it and the bytes Marshal writes for the decoded value:      *)
(* no insignificant whitespace, object keys sorted and unique (the last    *)
(* one wins), numbers as Go formats a float64, strings with Marshal's      *)
(* escapes.  A code point written \uXXXX is kept as the one rune "UXXXX".  *)
(***************************************************************************)
\* The runes of the model in code point order (the order of their UTF-8 bytes).
RuneOrder ==
    <<"BS", TAB, LF, "FF", CR, " ", "!", "\"", "#", "$", "%", "&", "'",
      "(", ")", "*", "+", ",", "-", ".", "/">>
    \o <<"0","1","2","3","4","5","6","7","8","9">>
    \o <<":", ";", "<", "=", ">", "?", "@">> \o UpperSeq
    \o <<"[", "\\", "]", "^", "_">> \o LowerSeq
    \o <<"{", "|", "}", "~", "UXXXX", TokExpStart, TokExprEnd, RuneError>>

RuneOrd(ch) ==
    IF \E i \in DOMAIN RuneOrder : RuneOrder[i] = ch
    THEN CHOOSE i \in DOMAIN RuneOrder : RuneOrder[i] = ch
    ELSE 0

\* a < b as Go compares strings
RECURSIVE StrLess(_, _)
StrLess(a, b) ==
    IF b = <<>> THEN FALSE
    ELSE IF a = <<>> THEN TRUE
    ELSE IF Head(a) = Head(b) THEN StrLess(Tail(a), Tail(b))
    ELSE RuneOrd(Head(a)) < RuneOrd(Head(b))

jsonSpace(ch) == ch \in {" ", TAB, LF, CR}
jsonControl(ch) == ch \in {NUL, "BS", TAB, LF, "FF", CR}
jsonHex(ch) == ch \in Digit \cup {"a","b","c","d","e","f","A","B","C","D","E","F"}

RECURSIVE jsonSkip(_, _)
jsonSkip(s, i) ==
    IF i <= Len(s) /\ jsonSpace(s[i]) THEN jsonSkip(s, i + 1) ELSE i

jsonFail == [ok |-> FALSE, i |-> 0, out |-> <<>>, key |-> <<>>]

\* Marshal's bytes for one rune of a string
jsonEscapeRune(ch) ==
    CASE ch = "\"" -> <<"\\", "\"">>
      [] ch = "\\" -> <<"\\", "\\">>
      [] ch = LF -> <<"\\", "n">>
      [] ch = CR -> <<"\\", "r">>
      [] ch = TAB -> <<"\\", "t">>
      [] ch = "BS" -> <<"\\", "u", "0", "0", "0", "8">>
      [] ch = "FF" -> <<"\\", "u", "0", "0", "0", "c">>
      [] ch = "&" -> <<"\\", "u", "0", "0", "2", "6">>
      [] ch = "<" -> <<"\\", "u", "0", "0", "3", "c">>
      [] ch = ">" -> <<"\\", "u", "0", "0", "3", "e">>
      [] OTHER -> <<ch>>

RECURSIVE jsonEscape(_)
jsonEscape(s) ==
    IF s = <<>> THEN <<>> ELSE jsonEscapeRune(Head(s)) \o jsonEscape(Tail(s))

\* The string whose opening quote is at i - 1: key is the decoded text.
RECURSIVE jsonString(_, _, _)
jsonString(s, i, acc) ==
    IF i > Len(s) THEN jsonFail
    ELSE IF s[i] = "\""
    THEN [ok |-> TRUE, i |-> i + 1, key |-> acc,
          out |-> <<"\"">> \o jsonEscape(acc) \o <<"\"">>]
    ELSE IF jsonControl(s[i]) THEN jsonFail
    ELSE IF s[i] = "\\"
    THEN IF i + 1 > Len(s) THEN jsonFail
         ELSE LET c == s[i + 1] IN
              CASE c \in {"\"", "\\", "/"} -> jsonString(s, i + 2, Append(acc, c))
                [] c = "b" -> jsonString(s, i + 2, Append(acc, "BS"))
                [] c = "f" -> jsonString(s, i + 2, Append(acc, "FF"))
                [] c = "n" -> jsonString(s, i + 2, Append(acc, LF))
                [] c = "r" -> jsonString(s, i + 2, Append(acc, CR))
                [] c = "t" -> jsonString(s, i + 2, Append(acc, TAB))
                [] c = "u" ->
                     IF i + 5 <= Len(s) /\ \A k \in 2..5 : jsonHex(s[i + k])
                     THEN jsonString(s, i + 6, Append(acc, "UXXXX"))
                     ELSE jsonFail
                [] OTHER -> jsonFail
    ELSE jsonString(s, i + 1, Append(acc, s[i]))

RECURSIVE jsonDigits(_, _)
jsonDigits(s, i) ==
    IF i <= Len(s) /\ s[i] \in Digit THEN jsonDigits(s, i + 1) ELSE i

DigitVal(ch) == CHOOSE n \in 0..9 : <<"0","1","2","3","4","5","6","7","8","9">>[n + 1] = ch

RECURSIVE NatOf(_)
NatOf(ds) ==
    IF ds = <<>> THEN 0
    ELSE 10 * NatOf(SubSeq(ds, 1, Len(ds) - 1)) + DigitVal(ds[Len(ds)])

RECURSIVE DigitsOf(_)
DigitsOf(n) ==
    IF n < 10 THEN <<<<"0","1","2","3","4","5","6","7","8","9">>[n + 1]>>
    ELSE DigitsOf(n \div 10) \o DigitsOf(n % 10)

RECURSIVE StripLeadingZeros(_, _)
StripLeadingZeros(m, p) ==
    IF m # <<>> /\ Head(m) = "0" THEN StripLeadingZeros(Tail(m), p - 1)
    ELSE [m |-> m, p |-> p]

RECURSIVE StripTrailingZeros(_)
StripTrailingZeros(m) ==
    IF m # <<>> /\ m[Len(m)] = "0"
    THEN StripTrailingZeros(SubSeq(m, 1, Len(m) - 1))
    ELSE m

Zeros(n) == [k \in 1..n |-> "0"]

\* strconv.FormatFloat(f, 'f' or 'e', -1, 64) as encoding/json uses it, for a
\* number with digits m (no leading or trailing zero) and p digits before
\* the decimal point.
jsonFormatFloat(neg, m, p) ==
    LET sign == IF neg THEN <<"-">> ELSE <<>> IN
    IF m = <<>> THEN sign \o <<"0">>
    ELSE IF p - 1 < -6 \/ p - 1 >= 21
    THEN LET x == p - 1
             mant == <<Head(m)>> \o
                     (IF Len(m) > 1 THEN <<".">> \o Tail(m) ELSE <<>>)
             ex == IF x < 0
                   THEN <<"e", "-">> \o DigitsOf(0 - x)
                   ELSE <<"e", "+">> \o DigitsOf(x)
         IN sign \o mant \o ex
    ELSE IF p <= 0 THEN sign \o <<"0", ".">> \o Zeros(0 - p) \o m
    ELSE IF p >= Len(m) THEN sign \o m \o Zeros(p - Len(m))
    ELSE sign \o SubSeq(m, 1, p) \o <<".">> \o SubSeq(m, p + 1, Len(m))

\* the digits of the least decimal that rounds past the largest float64
MaxFloatDigits ==
    <<"1","7","9","7","6","9","3","1","3","4","8","6","2","3","1","5","8","0","7","9","3">>

\* 0.m * 10^p is too large for a float64 (m has no leading zero)
floatOverflow(m, p) ==
    m # <<>> /\ (p > 309 \/ (p = 309 /\ ~StrLess(m, MaxFloatDigits)))

\* the number whose sign, integer digits d, fraction digits f and exponent e
\* were read up to index i4
jsonNumberOut(neg, d, f, e, i4) ==
    With(StripLeadingZeros(d \o f, Len(d) + e), LAMBDA st :
    IF floatOverflow(st.m, st.p) THEN jsonFail
    ELSE With(StripTrailingZeros(st.m), LAMBDA m :
         [ok |-> TRUE, i |-> i4, key |-> <<>>,
          out |-> IF m # <<>> /\ st.p - 1 < -324
                  THEN jsonFormatFloat(neg, <<>>, 0)
                  ELSE jsonFormatFloat(neg, m, st.p)]))

\* the exponent part of a number, from index i2
jsonExponent(s, neg, d, f, i2) ==
    IF ~(i2 <= Len(s) /\ s[i2] \in {"e", "E"}) THEN jsonNumberOut(neg, d, f, 0, i2)
    ELSE With(IF i2 + 1 <= Len(s) /\ s[i2 + 1] \in {"+", "-"} THEN i2 + 2 ELSE i2 + 1,
         LAMBDA i3 :
         With(jsonDigits(s, i3), LAMBDA i4 :
         IF i4 = i3 THEN jsonFail
         ELSE With(NatOf(SubSeq(s, i3, i4 - 1)), LAMBDA ev :
              jsonNumberOut(neg, d, f, IF s[i3 - 1] = "-" THEN 0 - ev ELSE ev, i4))))

\* the fraction part of a number, from index i1
jsonFraction(s, neg, d, i1) ==
    IF ~(i1 <= Len(s) /\ s[i1] = ".") THEN jsonExponent(s, neg, d, <<>>, i1)
    ELSE With(jsonDigits(s, i1 + 1), LAMBDA i2 :
         IF i2 = i1 + 1 THEN jsonFail
         ELSE jsonExponent(s, neg, d, SubSeq(s, i1 + 1, i2 - 1), i2))

\* A number starting at i.  strconv.ParseFloat fails past the largest float64.
jsonNumber(s, i) ==
    With(i <= Len(s) /\ s[i] = "-", LAMBDA neg :
    With(IF neg THEN i + 1 ELSE i, LAMBDA i0 :
    With(jsonDigits(s, i0), LAMBDA i1 :
    IF ~(i1 > i0 /\ (s[i0] = "0" => i1 = i0 + 1)) THEN jsonFail
    ELSE jsonFraction(s, neg, SubSeq(s, i0, i1 - 1), i1))))

jsonLiteral(s, i, lit) ==
    IF i + Len(lit) - 1 <= Len(s) /\ SubSeq(s, i, i + Len(lit) - 1) = lit
    THEN [ok |-> TRUE, i |-> i + Len(lit), key |-> <<>>, out |-> lit]
    ELSE jsonFail

\* Marshal of a map: members is a sequence of <<key, bytes of the value>>.
jsonObjectOut(members) ==
    LET keys == {members[k][1] : k \in DOMAIN members}
        lastOf(key) == CHOOSE k \in DOMAIN members :
                          /\ members[k][1] = key
                          /\ \A j \in DOMAIN members : members[j][1] = key => j <= k
        rank(key) == Cardinality({x \in keys : StrLess(x, key)}) + 1
        sorted == [n \in 1..Cardinality(keys) |-> CHOOSE x \in keys : rank(x) = n]
        RECURSIVE emit(_)
        emit(n) ==
            IF n > Cardinality(keys) THEN <<>>
            ELSE (IF n > 1 THEN <<",">> ELSE <<>>)
                 \o <<"\"">> \o jsonEscape(sorted[n]) \o <<"\"", ":">>
                 \o members[lastOf(sorted[n])][2] \o emit(n + 1)
    IN  <<"{">> \o emit(1) \o <<"}">>

RECURSIVE jsonValue(_, _)
RECURSIVE jsonMembers(_, _, _)
RECURSIVE jsonElements(_, _, _)

\* After "{" or after a ",": the next member, then "," or "}".
jsonMembers(s, i, members) ==
    With(jsonSkip(s, i), LAMBDA k0 :
    IF k0 > Len(s) \/ s[k0] # "\"" THEN jsonFail
    ELSE With(jsonString(s, k0 + 1, <<>>), LAMBDA k :
         IF ~k.ok THEN jsonFail
         ELSE With(jsonSkip(s, k.i), LAMBDA c :
              IF c > Len(s) \/ s[c] # ":" THEN jsonFail
              ELSE With(jsonValue(s, c + 1), LAMBDA v :
                   IF ~v.ok THEN jsonFail
                   ELSE With(jsonSkip(s, v.i), LAMBDA n :
                        With(Append(members, <<k.key, v.out>>), LAMBDA ms :
                        IF n > Len(s) THEN jsonFail
                        ELSE IF s[n] = "," THEN jsonMembers(s, n + 1, ms)
                        ELSE IF s[n] = "}"
                        THEN [ok |-> TRUE, i |-> n + 1, key |-> <<>>,
                              out |-> jsonObjectOut(ms)]
                        ELSE jsonFail))))))

jsonElements(s, i, out) ==
    With(jsonValue(s, i), LAMBDA v :
    IF ~v.ok THEN jsonFail
    ELSE With(jsonSkip(s, v.i), LAMBDA n :
         IF n > Len(s) THEN jsonFail
         ELSE IF s[n] = "," THEN jsonElements(s, n + 1, out \o v.out \o <<",">>)
         ELSE IF s[n] = "]"
         THEN [ok |-> TRUE, i |-> n + 1, key |-> <<>>,
               out |-> out \o v.out \o <<"]">>]
         ELSE jsonFail))

\* "{" or "[" at b: an empty object or array, or its members
jsonContainer(s, b, n) ==
    IF s[b] = "{"
    THEN IF n <= Len(s) /\ s[n] = "}"
         THEN [ok |-> TRUE, i |-> n + 1, key |-> <<>>, out |-> <<"{", "}">>]
         ELSE jsonMembers(s, b + 1, <<>>)
    ELSE IF n <= Len(s) /\ s[n] = "]"
         THEN [ok |-> TRUE, i |-> n + 1, key |-> <<>>, out |-> <<"[", "]">>]
         ELSE jsonElements(s, b + 1, <<"[">>)

jsonValue(s, i) ==
    With(jsonSkip(s, i), LAMBDA b :
    IF b > Len(s) THEN jsonFail
    ELSE CASE s[b] \in {"{", "["} -> jsonContainer(s, b, jsonSkip(s, b + 1))
           [] s[b] = "\"" -> jsonString(s, b + 1, <<>>)
           [] s[b] = "-" \/ s[b] \in Digit -> jsonNumber(s, b)
           [] s[b] = "t" -> jsonLiteral(s, b, <<"t","r","u","e">>)
           [] s[b] = "f" -> jsonLiteral(s, b, <<"f","a","l","s","e">>)
           [] s[b] = "n" -> jsonLiteral(s, b, <<"n","u","l","l">>)
           [] OTHER -> jsonFail)

\* json.Unmarshal([]byte(s), &obj) then json.Marshal(obj): the whole text is
\* one value, with nothing but whitespace after it.
jsonRoundTrip(s) ==
    With(jsonValue(s, 1), LAMBDA v :
    IF v.ok /\ jsonSkip(s, v.i) > Len(s)
    THEN [ok |-> TRUE, out |-> v.out]
    ELSE [ok |-> FALSE, out |-> <<>>])

(***************************************************************************)
(* JSON literals as argument values                                        *)
(***************************************************************************)
\* one turn of the loop of parseJSONArg after the rune ch was read and written
\* the variables of the loop at the start of its next turn
parseJSONArgLoopAgain(sr, braceCount, inString, escaped, jsonBuilder) ==
    [next |-> TRUE,
     sr |-> sr, braceCount |-> braceCount, inString |-> inString,
     escaped |-> escaped, jsonBuilder |-> jsonBuilder]

\* a faulty step: braces count inside strings too
parseJSONArgStepAllBraces(sr, ch, braceCount, inString, escaped, b) ==
    IF escaped THEN parseJSONArgLoopAgain(sr, braceCount, inString, FALSE, b)
    ELSE IF ch = SymJSONEscapeSeq
    THEN parseJSONArgLoopAgain(sr, braceCount, inString, TRUE, b)
    ELSE IF ch = SymJSONString
    THEN parseJSONArgLoopAgain(sr, braceCount, ~inString, FALSE, b)
    ELSE IF ch = SymJSONStart
    THEN parseJSONArgLoopAgain(sr, braceCount + 1, inString, FALSE, b)
    ELSE IF ch = SymJSONEnd
    THEN parseJSONArgLoopAgain(sr, braceCount - 1, inString, FALSE, b)
    ELSE parseJSONArgLoopAgain(sr, braceCount, inString, FALSE, b)

\* the statements of the loop of parseJSONArg after the rune ch was written
parseJSONArgStep(sr, ch, braceCount, inString, escaped, b) ==
    IF escaped THEN parseJSONArgLoopAgain(sr, braceCount, inString, FALSE, b)
    ELSE IF ch = SymJSONEscapeSeq
    THEN parseJSONArgLoopAgain(sr, braceCount, inString, TRUE, b)
    ELSE IF ch = SymJSONString
    THEN parseJSONArgLoopAgain(sr, braceCount, ~inString, FALSE, b)
    ELSE IF ~inString /\ ch = SymJSONStart
    THEN parseJSONArgLoopAgain(sr, braceCount + 1, inString, FALSE, b)
    ELSE IF ~inString /\ ch = SymJSONEnd
    THEN parseJSONArgLoopAgain(sr, braceCount - 1, inString, FALSE, b)
    ELSE parseJSONArgLoopAgain(sr, braceCount, inString, FALSE, b)

parseJSONArgLoopTurn(sr, braceCount, inString, escaped, jsonBuilder) ==
    IF braceCount <= 0
    THEN [sr |-> sr, val |-> jsonBuilder, err |-> nil]
    ELSE With(read(sr), LAMBDA r :
         IF r.err # nil THEN [sr |-> r.sr, val |-> <<>>, err |-> r.err]
         ELSE IF r.ch = eof THEN [sr |-> r.sr, val |-> <<>>, err |-> ErrInvalidJSON]
         ELSE parseJSONArgStep(r.sr, r.ch, braceCount, inString, escaped,
                               Append(jsonBuilder, r.ch)))

\* the turns of the loop, until one returns
RECURSIVE parseJSONArgLoopRun(_)
parseJSONArgLoopRun(st) ==
    IF "next" \in DOMAIN st
    THEN parseJSONArgLoopRun(parseJSONArgLoopTurn(st.sr, st.braceCount,
             st.inString, st.escaped, st.jsonBuilder))
    ELSE st

parseJSONArgLoop(sr, braceCount, inString, escaped, jsonBuilder) ==
    parseJSONArgLoopRun(parseJSONArgLoopAgain(sr, braceCount, inString,
        escaped, jsonBuilder))

parseJSONArg(sr) ==
    With(parseJSONArgLoop(sr, 1, FALSE, FALSE, <<>>), LAMBDA l :
    IF l.err # nil THEN [sr |-> l.sr, val |-> <<>>, err |-> l.err]
    ELSE With(jsonRoundTrip(<<SymJSONStart>> \o l.val), LAMBDA j :
         IF ~j.ok THEN [sr |-> l.sr, val |-> <<>>, err |-> ErrInvalidJSON]
         ELSE [sr |-> l.sr, val |-> j.out, err |-> nil]))

(***************************************************************************)
(* Maps (map[string]string) are sets of <<key, value>> with unique keys.   *)
(***************************************************************************)
EmptyMap == {}
MapSet(m, k, v) == {e \in m : e[1] # k} \cup {<<k, v>>}
MapKeys(m) == {e[1] : e \in m}
MapGet(m, k) == IF k \in MapKeys(m) THEN (CHOOSE e \in m : e[1] = k)[2] ELSE <<>>

\* AdvArgs{}: the zero value, whose raw map is nil
NilAdvArgs == [isNil |-> TRUE, raw |-> EmptyMap]
NewAdvArgs(m) == [isNil |-> FALSE, raw |-> m]

ZapScriptCmdLaunch == <<"l","a","u","n","c","h">>
ZapScriptCmdLaunchTitle == <<"l","a","u","n","c","h",".","t","i","t","l","e">>
ZapScriptCmdInputKeyboard == <<"i","n","p","u","t",".","k","e","y","b","o","a","r","d">>
ZapScriptCmdInputGamepad == <<"i","n","p","u","t",".","g","a","m","e","p","a","d">>

isInputMacroCmd(name) ==
    name \in {ZapScriptCmdInputKeyboard, ZapScriptCmdInputGamepad}

(***************************************************************************)
(* Advanced arguments: ?key=value&key=value                                *)
(***************************************************************************)
\* a faulty storeArg: the value is stored without trimming
storeArgNoTrim(st) ==
    [st EXCEPT
       !.advArgs = IF st.currentArg # <<>>
                   THEN MapSet(@, st.currentArg, st.currentValue)
                   ELSE @,
       !.currentArg = <<>>,
       !.currentValue = <<>>]

\* the closure storeArg of parseAdvArgs, over the loop's variables
storeArg(st) ==
    [st EXCEPT
       !.advArgs = IF st.currentArg # <<>>
                   THEN MapSet(@, st.currentArg, TrimSpace(st.currentValue))
                   ELSE @,
       !.currentArg = <<>>,
       !.currentValue = <<>>]

advRet(sr, st, err) ==
    [sr |-> sr, advArgs |-> st.advArgs, buf |-> st.buf, err |-> err]

\* the switch of the loop of parseAdvArgs while inValue is set; none is TRUE
\* when no case applies and the statements after the switch run
advValueCase(sr, st, ch) ==
    IF st.valueStart = sr.pos - 1 /\ ch \in {SymArgDoubleQuote, SymArgSingleQuote}
    THEN With(parseQuotedArg(sr, ch), LAMBDA q :
         [none |-> FALSE, sr |-> q.sr, err |-> q.err,
          st |-> [st EXCEPT !.currentValue = q.val]])
    ELSE IF ch = SymJSONStart /\ st.valueStart = sr.pos - 1
    THEN With(parseJSONArg(sr), LAMBDA j :
         [none |-> FALSE, sr |-> j.sr, err |-> j.err,
          st |-> [st EXCEPT !.currentValue = j.val]])
    ELSE IF ch = SymEscapeSeq
    THEN With(peek(sr), LAMBDA p :
         IF p.err # nil THEN [none |-> FALSE, sr |-> p.sr, err |-> p.err, st |-> st]
         ELSE With(parseEscapeSeq(p.sr), LAMBDA e :
              [none |-> FALSE, sr |-> e.sr, err |-> e.err,
               st |-> IF e.err # nil THEN st
                      ELSE IF e.val = <<>>
                      THEN [st EXCEPT !.currentValue = Append(@, SymEscapeSeq)]
                      ELSE [st EXCEPT !.buf = Append(@, p.ch),
                                      !.currentValue = @ \o e.val]]))
    ELSE [none |-> TRUE, sr |-> sr, err |-> nil, st |-> st]

\* the variables of the loop at the start of its next turn
parseAdvArgsLoopAgain(sr, st) ==
    [next |-> TRUE, sr |-> sr, st |-> st]

\* the statements of the loop of parseAdvArgs from checkEndOfCmd on
advRest(sr, st, ch) ==
    With(checkEndOfCmd(sr, ch), LAMBDA c :
    IF c.err # nil THEN advRet(c.sr, st, c.err)
    ELSE IF c.eoc THEN advRet(c.sr, storeArg(st), nil)
    ELSE IF ch = SymAdvArgSep
    THEN parseAdvArgsLoopAgain(c.sr, [storeArg(st) EXCEPT !.inValue = FALSE])
    ELSE IF ch = SymAdvArgEq /\ ~st.inValue
    THEN parseAdvArgsLoopAgain(c.sr,
             [st EXCEPT !.valueStart = c.sr.pos, !.inValue = TRUE])
    ELSE IF st.inValue
    THEN IF ch = SymExpressionStart
         THEN With(parseExpression(c.sr), LAMBDA x :
              IF x.err # nil THEN advRet(x.sr, st, x.err)
              ELSE parseAdvArgsLoopAgain(x.sr, [st EXCEPT !.currentValue = @ \o x.val]))
         ELSE parseAdvArgsLoopAgain(c.sr, [st EXCEPT !.currentValue = Append(@, ch)])
    ELSE IF ~isAdvArgName(ch) THEN advRet(c.sr, st, ErrInvalidAdvArgName)
    ELSE parseAdvArgsLoopAgain(c.sr, [st EXCEPT !.currentArg = Append(@, ch)]))

\* one turn of the loop after the rune ch was read and added to buf
advStep(sr, st, ch) ==
    IF ~st.inValue THEN advRest(sr, st, ch)
    ELSE With(advValueCase(sr, st, ch), LAMBDA v :
         IF v.none THEN advRest(sr, st, ch)
         ELSE IF v.err # nil THEN advRet(v.sr, v.st, v.err)
         ELSE parseAdvArgsLoopAgain(v.sr, v.st))

parseAdvArgsLoopTurn(sr, st) ==
    With(read(sr), LAMBDA r :
    IF r.err # nil THEN advRet(r.sr, st, r.err)
    ELSE IF r.ch = eof THEN advRet(r.sr, storeArg(st), nil)
    ELSE advStep(r.sr, [st EXCEPT !.buf = Append(@, r.ch)], r.ch))

\* the turns of the loop, until one returns
RECURSIVE parseAdvArgsLoopRun(_)
parseAdvArgsLoopRun(st) ==
    IF "next" \in DOMAIN st
    THEN parseAdvArgsLoopRun(parseAdvArgsLoopTurn(st.sr, st.st))
    ELSE st

parseAdvArgsLoop(sr, st) == parseAdvArgsLoopRun(parseAdvArgsLoopAgain(sr, st))

parseAdvArgs(sr) ==
    parseAdvArgsLoop(sr,
        [advArgs |-> EmptyMap, inValue |-> FALSE, currentArg |-> <<>>,
         currentValue |-> <<>>, valueStart |-> -1, buf |-> <<>>])

(***************************************************************************)
(* Positional arguments                                                    *)
(***************************************************************************)
argsRet(sr, args, advArgs, err) ==
    [sr |-> sr, args |-> args, advArgs |-> advArgs, err |-> err]

\* a faulty argsEnd: an empty last argument is always dropped
argsEndDropEmpty(sr, args, advArgs, currentArg, onlyAdvArgs) ==
    IF TrimSpace(currentArg) # <<>>
    THEN argsRet(sr, Append(args, TrimSpace(currentArg)), advArgs, nil)
    ELSE argsRet(sr, args, advArgs, nil)

\* the statements after argsLoop
argsEnd(sr, args, advArgs, currentArg, onlyAdvArgs) ==
    IF ~onlyAdvArgs THEN argsRet(sr, Append(args, TrimSpace(currentArg)), advArgs, nil)
    ELSE IF TrimSpace(currentArg) # <<>>
    THEN argsRet(sr, Append(args, TrimSpace(currentArg)), advArgs, nil)
    ELSE argsRet(sr, args, advArgs, nil)

\* the first switch of argsLoop: a quoted literal, a JSON literal or an
\* escape; none is TRUE when no case applies
argsLiteralCase(sr, ch, currentArg, argStart) ==
    IF argStart = sr.pos - 1 /\ ch \in {SymArgDoubleQuote, SymArgSingleQuote}
    THEN With(parseQuotedArg(sr, ch), LAMBDA q :
         [none |-> FALSE, sr |-> q.sr, err |-> q.err, currentArg |-> q.val])
    ELSE IF argStart = sr.pos - 1 /\ ch = SymJSONStart
    THEN With(parseJSONArg(sr), LAMBDA j :
         [none |-> FALSE, sr |-> j.sr, err |-> j.err, currentArg |-> j.val])
    ELSE IF ch = SymEscapeSeq
    THEN With(parseEscapeSeq(sr), LAMBDA e :
         [none |-> FALSE, sr |-> e.sr, err |-> e.err,
          currentArg |-> IF e.val = <<>> THEN Append(currentArg, SymEscapeSeq)
                         ELSE currentArg \o e.val])
    ELSE [none |-> TRUE, sr |-> sr, err |-> nil, currentArg |-> currentArg]

\* the variables of the loop at the start of its next turn
parseArgsLoopAgain(sr, args, currentArg, argStart, onlyAdvArgs, onlyOneArg) ==
    [next |-> TRUE,
     sr |-> sr, args |-> args, currentArg |-> currentArg,
     argStart |-> argStart, onlyAdvArgs |-> onlyAdvArgs,
     onlyOneArg |-> onlyOneArg]

\* the statements of argsLoop from checkEndOfCmd on
argsRest(sr, ch, args, currentArg, argStart, onlyAdvArgs, onlyOneArg) ==
    With(checkEndOfCmd(sr, ch), LAMBDA c :
    IF c.err # nil THEN argsRet(c.sr, args, EmptyMap, c.err)
    ELSE IF c.eoc THEN argsEnd(c.sr, args, EmptyMap, currentArg, onlyAdvArgs)
    ELSE IF ~onlyOneArg /\ ch = SymArgSep
    THEN parseArgsLoopAgain(c.sr, Append(args, TrimSpace(currentArg)), <<>>,
                       c.sr.pos, onlyAdvArgs, onlyOneArg)
    ELSE IF ch = SymAdvArgStart
    THEN With(parseAdvArgs(c.sr), LAMBDA a :
         IF a.err = ErrInvalidAdvArgName
         THEN parseArgsLoopAgain(a.sr, args,
                            currentArg \o <<SymAdvArgStart>> \o a.buf,
                            argStart, onlyAdvArgs, onlyOneArg)
         ELSE IF a.err # nil THEN argsRet(a.sr, args, EmptyMap, a.err)
         ELSE argsEnd(a.sr, args, a.advArgs, currentArg, onlyAdvArgs))
    ELSE IF ch = SymExpressionStart
    THEN With(parseExpression(c.sr), LAMBDA x :
         IF x.err # nil THEN argsRet(x.sr, args, EmptyMap, x.err)
         ELSE parseArgsLoopAgain(x.sr, args, currentArg \o x.val,
                            argStart, onlyAdvArgs, onlyOneArg))
    ELSE parseArgsLoopAgain(c.sr, args, Append(currentArg, ch),
                       argStart, onlyAdvArgs, onlyOneArg))

\* one turn of argsLoop after the rune ch was read
argsStep(sr, ch, args, currentArg, argStart, onlyAdvArgs, onlyOneArg) ==
    With(argsLiteralCase(sr, ch, currentArg, argStart), LAMBDA l :
    IF l.none
    THEN argsRest(sr, ch, args, currentArg, argStart, onlyAdvArgs, onlyOneArg)
    ELSE IF l.err # nil THEN argsRet(l.sr, args, EmptyMap, l.err)
    ELSE parseArgsLoopAgain(l.sr, args, l.currentArg, argStart, onlyAdvArgs, onlyOneArg))

parseArgsLoopTurn(sr, args, currentArg, argStart, onlyAdvArgs, onlyOneArg) ==
    With(read(sr), LAMBDA r :
    IF r.err # nil THEN argsRet(r.sr, args, EmptyMap, r.err)
    ELSE IF r.ch = eof THEN argsEnd(r.sr, args, EmptyMap, currentArg, onlyAdvArgs)
    ELSE argsStep(r.sr, r.ch, args, currentArg, argStart, onlyAdvArgs, onlyOneArg))

\* the turns of the loop, until one returns
RECURSIVE parseArgsLoopRun(_)
parseArgsLoopRun(st) ==
    IF "next" \in DOMAIN st
    THEN parseArgsLoopRun(parseArgsLoopTurn(st.sr, st.args, st.currentArg,
             st.argStart, st.onlyAdvArgs, st.onlyOneArg))
    ELSE st

parseArgsLoop(sr, args, currentArg, argStart, onlyAdvArgs, onlyOneArg) ==
    parseArgsLoopRun(parseArgsLoopAgain(sr, args, currentArg, argStart,
        onlyAdvArgs, onlyOneArg))

parseArgs(sr, prefix, onlyAdvArgs, onlyOneArg) ==
    parseArgsLoop(sr, <<>>, prefix, sr.pos, onlyAdvArgs, onlyOneArg)

(***************************************************************************)
(* Input macros: one argument per rune                                     *)
(***************************************************************************)
\* the inner loop of parseInputMacroArg: an extended macro up to its "}"
\* the variables of the loop at the start of its next turn
parseInputMacroExtAgain(sr, extName) ==
    [next |-> TRUE, sr |-> sr, extName |-> extName]

parseInputMacroExtTurn(sr, extName) ==
    With(read(sr), LAMBDA r :
    IF r.err # nil THEN [sr |-> r.sr, val |-> extName, err |-> r.err]
    ELSE IF r.ch = eof
    THEN [sr |-> r.sr, val |-> extName, err |-> ErrUnmatchedInputMacroExt]
    ELSE IF r.ch = SymInputMacroExtEnd
    THEN [sr |-> r.sr, val |-> Append(extName, r.ch), err |-> nil]
    ELSE parseInputMacroExtAgain(r.sr, Append(extName, r.ch)))

\* the turns of the loop, until one returns
RECURSIVE parseInputMacroExtRun(_)
parseInputMacroExtRun(st) ==
    IF "next" \in DOMAIN st
    THEN parseInputMacroExtRun(parseInputMacroExtTurn(st.sr, st.extName))
    ELSE st

parseInputMacroExt(sr, extName) ==
    parseInputMacroExtRun(parseInputMacroExtAgain(sr, extName))

\* one single-rune argument per rune of s
RuneArgs(s) == [i \in DOMAIN s |-> <<s[i]>>]

\* the variables of the loop at the start of its next turn
parseInputMacroArgLoopAgain(sr, args) ==
    [next |-> TRUE, sr |-> sr, args |-> args]

\* the statements of the loop of parseInputMacroArg from checkEndOfCmd on
inputMacroRest(sr, ch, args) ==
    With(checkEndOfCmd(sr, ch), LAMBDA c :
    IF c.err # nil THEN argsRet(c.sr, args, EmptyMap, c.err)
    ELSE IF c.eoc THEN argsRet(c.sr, args, EmptyMap, nil)
    ELSE IF ch = SymInputMacroExtStart
    THEN With(parseInputMacroExt(c.sr, <<ch>>), LAMBDA x :
         IF x.err # nil THEN argsRet(x.sr, args, EmptyMap, x.err)
         ELSE parseInputMacroArgLoopAgain(x.sr, Append(args, x.val)))
    ELSE IF ch = SymAdvArgStart
    THEN With(parseAdvArgs(c.sr), LAMBDA a :
         IF a.err = ErrInvalidAdvArgName
         THEN parseInputMacroArgLoopAgain(a.sr,
                  args \o RuneArgs(<<SymAdvArgStart>> \o a.buf))
         ELSE IF a.err # nil THEN argsRet(a.sr, args, EmptyMap, a.err)
         ELSE argsRet(a.sr, args, a.advArgs, nil))
    ELSE parseInputMacroArgLoopAgain(c.sr, Append(args, <<ch>>)))

parseInputMacroArgLoopTurn(sr, args) ==
    With(read(sr), LAMBDA r :
    IF r.err # nil THEN argsRet(r.sr, args, EmptyMap, r.err)
    ELSE IF r.ch = eof THEN argsRet(r.sr, args, EmptyMap, nil)
    ELSE IF r.ch = SymInputMacroEscapeSeq
    THEN With(read(r.sr), LAMBDA n :
         IF n.err # nil THEN argsRet(n.sr, args, EmptyMap, n.err)
         ELSE IF n.ch = eof
         THEN argsRet(n.sr, Append(args, <<SymInputMacroEscapeSeq>>), EmptyMap, nil)
         ELSE parseInputMacroArgLoopAgain(n.sr, Append(args, <<n.ch>>)))
    ELSE inputMacroRest(r.sr, r.ch, args))

\* the turns of the loop, until one returns
RECURSIVE parseInputMacroArgLoopRun(_)
parseInputMacroArgLoopRun(st) ==
    IF "next" \in DOMAIN st
    THEN parseInputMacroArgLoopRun(parseInputMacroArgLoopTurn(st.sr, st.args))
    ELSE st

parseInputMacroArgLoop(sr, args) ==
    parseInputMacroArgLoopRun(parseInputMacroArgLoopAgain(sr, args))

parseInputMacroArg(sr) == parseInputMacroArgLoop(sr, <<>>)

(***************************************************************************)
(* Commands                                                                *)
(***************************************************************************)
\* Command{}: the zero value
EmptyCommand == [Name |-> <<>>, Args |-> <<>>, AdvArgs |-> NilAdvArgs]

cmdRet(sr, cmd, buf, err) == [sr |-> sr, cmd |-> cmd, buf |-> buf, err |-> err]

\* the statements after commandLoop
commandEnd(sr, cmd, buf) ==
    IF cmd.Name = <<>> THEN cmdRet(sr, cmd, buf, ErrEmptyCmdName)
    ELSE cmdRet(sr, [cmd EXCEPT !.Name = ToLower(@)], buf, nil)

\* parseInputMacroArg or parseArgs by the command's name, then the
\* assignments of what they returned
commandParsedArgs(a, cmd, buf) ==
    IF a.err # nil THEN cmdRet(a.sr, cmd, buf, a.err)
    ELSE commandEnd(a.sr,
             [cmd EXCEPT !.Args = IF Len(a.args) > 0 THEN a.args ELSE @,
                         !.AdvArgs = IF a.advArgs # EmptyMap
                                     THEN NewAdvArgs(a.advArgs) ELSE @],
             buf)

\* the argument branch of commandLoop, entered on ":" or "?"
commandArgs(sr, cmd, buf, ch, onlyOneArg) ==
    With(IF ch = SymAdvArgStart THEN unread(sr) ELSE [sr |-> sr, err |-> nil],
    LAMBDA u :
    IF u.err # nil THEN cmdRet(u.sr, cmd, buf, u.err)
    ELSE IF isInputMacroCmd(cmd.Name)
    THEN commandParsedArgs(parseInputMacroArg(u.sr), cmd, buf)
    ELSE commandParsedArgs(parseArgs(u.sr, <<>>, ch = SymAdvArgStart, onlyOneArg),
                           cmd, buf))

\* the variables of the loop at the start of its next turn
parseCommandLoopAgain(sr, cmd, buf, onlyOneArg) ==
    [next |-> TRUE,
     sr |-> sr, cmd |-> cmd, buf |-> buf, onlyOneArg |-> onlyOneArg]

\* one turn of commandLoop after the rune ch was read and added to buf
commandStep(sr, ch, cmd, buf, onlyOneArg) ==
    With(checkEndOfCmd(sr, ch), LAMBDA c :
    IF c.err # nil THEN cmdRet(c.sr, cmd, buf, c.err)
    ELSE IF c.eoc THEN commandEnd(c.sr, cmd, buf)
    ELSE IF isCmdName(ch)
    THEN parseCommandLoopAgain(c.sr, [cmd EXCEPT !.Name = Append(@, ch)], buf, onlyOneArg)
    ELSE IF ch \in {SymArgStart, SymAdvArgStart}
    THEN IF cmd.Name = <<>> THEN commandEnd(c.sr, cmd, buf)
         ELSE commandArgs(c.sr, cmd, buf, ch, onlyOneArg)
    ELSE cmdRet(c.sr, cmd, buf, ErrInvalidCmdName))

parseCommandLoopTurn(sr, cmd, buf, onlyOneArg) ==
    With(read(sr), LAMBDA r :
    IF r.err # nil THEN cmdRet(r.sr, cmd, buf, r.err)
    ELSE IF r.ch = eof THEN commandEnd(r.sr, cmd, buf)
    ELSE commandStep(r.sr, r.ch, cmd, Append(buf, r.ch), onlyOneArg))

\* the turns of the loop, until one returns
RECURSIVE parseCommandLoopRun(_)
parseCommandLoopRun(st) ==
    IF "next" \in DOMAIN st
    THEN parseCommandLoopRun(parseCommandLoopTurn(st.sr, st.cmd, st.buf,
             st.onlyOneArg))
    ELSE st

parseCommandLoop(sr, cmd, buf, onlyOneArg) ==
    parseCommandLoopRun(parseCommandLoopAgain(sr, cmd, buf, onlyOneArg))

parseCommand(sr, onlyOneArg) == parseCommandLoop(sr, EmptyCommand, <<>>, onlyOneArg)

(***************************************************************************)
(* Media titles: @System/Title?advArgs                                     *)
(***************************************************************************)
mediaRet(sr, rawContent, advArgs, valid, err) ==
    [sr |-> sr, rawContent |-> rawContent, advArgs |-> advArgs,
     valid |-> valid, err |-> err]

\* the validation of parseMediaTitleSyntax, over the trimmed content
mediaTitleValid(rawContent, sepIdx) ==
    /\ sepIdx # 0
    /\ TrimSpace(SubSeq(rawContent, 1, sepIdx - 1)) # <<>>
    /\ TrimSpace(SubSeq(rawContent, sepIdx + 1, Len(rawContent))) # <<>>

\* the statements after the loop of parseMediaTitleSyntax
mediaTitleEnd(sr, content, advArgs) ==
    mediaRet(sr, TrimSpace(content), advArgs,
             mediaTitleValid(TrimSpace(content),
                             Index(TrimSpace(content), SymMediaTitleSep)),
             nil)

\* the variables of the loop at the start of its next turn
parseMediaTitleLoopAgain(sr, content) ==
    [next |-> TRUE, sr |-> sr, content |-> content]

\* the statements of the loop from checkEndOfCmd on
mediaTitleRest(sr, ch, content) ==
    With(checkEndOfCmd(sr, ch), LAMBDA c :
    IF c.err # nil THEN mediaRet(c.sr, <<>>, EmptyMap, FALSE, c.err)
    ELSE IF c.eoc THEN mediaTitleEnd(c.sr, content, EmptyMap)
    ELSE IF ch = SymAdvArgStart
    THEN With(parseAdvArgs(c.sr), LAMBDA a :
         IF a.err = ErrInvalidAdvArgName
         THEN parseMediaTitleLoopAgain(a.sr, content \o <<SymAdvArgStart>> \o a.buf)
         ELSE IF a.err # nil THEN mediaRet(a.sr, <<>>, EmptyMap, FALSE, a.err)
         ELSE mediaTitleEnd(a.sr, content, a.advArgs))
    ELSE parseMediaTitleLoopAgain(c.sr, Append(content, ch)))

parseMediaTitleLoopTurn(sr, content) ==
    With(read(sr), LAMBDA r :
    IF r.err # nil THEN mediaRet(r.sr, <<>>, EmptyMap, FALSE, r.err)
    ELSE IF r.ch = eof THEN mediaTitleEnd(r.sr, content, EmptyMap)
    ELSE IF r.ch = SymEscapeSeq
    THEN With(parseEscapeSeq(r.sr), LAMBDA e :
         IF e.err # nil THEN mediaRet(e.sr, <<>>, EmptyMap, FALSE, e.err)
         ELSE IF e.val = <<>>
         THEN parseMediaTitleLoopAgain(e.sr, Append(content, SymEscapeSeq))
         ELSE parseMediaTitleLoopAgain(e.sr, content \o e.val))
    ELSE mediaTitleRest(r.sr, r.ch, content))

\* the turns of the loop, until one returns
RECURSIVE parseMediaTitleLoopRun(_)
parseMediaTitleLoopRun(st) ==
    IF "next" \in DOMAIN st
    THEN parseMediaTitleLoopRun(parseMediaTitleLoopTurn(st.sr, st.content))
    ELSE st

parseMediaTitleLoop(sr, content) ==
    parseMediaTitleLoopRun(parseMediaTitleLoopAgain(sr, content))

parseMediaTitleSyntax(sr) == parseMediaTitleLoop(sr, <<>>)

(***************************************************************************)
(* Trait values: #key=value, with type inference                           *)
(***************************************************************************)
SymTraitsStart == "#"
SymArrayStart == "["
SymArrayEnd == "]"
SymArraySep == ","

\* values of type any: a tag and the value under it
StringValue(s) == [type |-> "string", val |-> s]
BoolValue(b) == [type |-> "bool", val |-> b]
IntValue(neg, digits) == [type |-> "int64", val |-> [neg |-> neg, digits |-> digits]]
\* a float64 is kept as the literal that strconv.ParseFloat accepted
FloatValue(s) == [type |-> "float64", val |-> s]
ArrayValue(elems) == [type |-> "array", val |-> elems]
NilValue == [type |-> "nil", val |-> <<>>]

IsDigits(s) == Len(s) > 0 /\ \A i \in DOMAIN s : s[i] \in Digit

\* the digits of 1<<63
MinInt64Digits ==
    <<"9","2","2","3","3","7","2","0","3","6","8","5","4","7","7","5","8","0","8">>

\* strconv.ParseInt(value, 10, 64): an optional sign and decimal digits, in
\* the range of an int64.  The integer is kept as its sign and its digits
\* without leading zeros.
parseInt(value) ==
    LET signed == Len(value) > 0 /\ value[1] \in {"+", "-"}
        neg == signed /\ value[1] = "-"
        ds == IF signed THEN SubSeq(value, 2, Len(value)) ELSE value
        m == StripLeadingZeros(ds, 0).m
        tooBig == \/ Len(m) > 19
                  \/ Len(m) = 19 /\ (IF neg THEN StrLess(MinInt64Digits, m)
                                     ELSE ~StrLess(m, MinInt64Digits))
    IN
    IF ~IsDigits(ds) \/ tooBig THEN [ok |-> FALSE, val |-> IntValue(FALSE, <<"0">>)]
    ELSE IF m = <<>> THEN [ok |-> TRUE, val |-> IntValue(FALSE, <<"0">>)]
    ELSE [ok |-> TRUE, val |-> IntValue(neg, m)]

\* strconv.ParseFloat's special values: a signed inf or infinity, or nan, in
\* any letter case
floatSpecial(s) ==
    LET signed == Len(s) > 0 /\ s[1] \in {"+", "-"}
        body == IF signed THEN SubSeq(s, 2, Len(s)) ELSE s
    IN
    \/ ToLower(body) \in {<<"i","n","f">>, <<"i","n","f","i","n","i","t","y">>}
    \/ ToLower(s) = <<"n","a","n">>

\* the decimal literals strconv.ParseFloat accepts with a nil error: an
\* optional sign, digits with at most one point and at least one digit, an
\* optional exponent, and a value in the range of a float64.  (Literals with
\* "_" or a 0x prefix are outside the inputs of this model.)
floatDecimal(s) ==
    LET signed == Len(s) > 0 /\ s[1] \in {"+", "-"}
        body == IF signed THEN SubSeq(s, 2, Len(s)) ELSE s
        exps == {i \in DOMAIN body : body[i] \in {"e", "E"}}
        expAt == IF exps = {} THEN 0 ELSE CHOOSE i \in exps : TRUE
        mant == IF expAt = 0 THEN body ELSE SubSeq(body, 1, expAt - 1)
        ex == IF expAt = 0 THEN <<>> ELSE SubSeq(body, expAt + 1, Len(body))
        exNeg == Len(ex) > 0 /\ ex[1] = "-"
        exDigits == IF Len(ex) > 0 /\ ex[1] \in {"+", "-"}
                    THEN SubSeq(ex, 2, Len(ex)) ELSE ex
        points == {i \in DOMAIN mant : mant[i] = "."}
        pointAt == IF points = {} THEN Len(mant) + 1 ELSE CHOOSE i \in points : TRUE
        digits == SubSeq(mant, 1, pointAt - 1) \o SubSeq(mant, pointAt + 1, Len(mant))
        \* an exponent of more than four digits is past every float64
        exHuge == Len(StripLeadingZeros(exDigits, 0).m) > 4
        ev == IF expAt = 0 \/ exHuge THEN 0 ELSE NatOf(exDigits)
        st == StripLeadingZeros(digits, (pointAt - 1) + (IF exNeg THEN 0 - ev ELSE ev))
    IN
    /\ Cardinality(exps) <= 1
    /\ \A i \in DOMAIN mant : mant[i] \in Digit \cup {"."}
    /\ Cardinality(points) <= 1
    /\ digits # <<>>
    /\ expAt # 0 => IsDigits(exDigits)
    /\ ~(exHuge /\ ~exNeg /\ st.m # <<>>)
    /\ ~floatOverflow(st.m, st.p)

\* strconv.ParseFloat(value, 64) returns a nil error
parseFloatOk(value) == floatSpecial(value) \/ floatDecimal(value)

\* a faulty inferType: the float is tried before the integer
inferTypeFloatFirst(value, quoted) ==
    IF quoted THEN StringValue(value)
    ELSE IF value = <<>> THEN StringValue(<<>>)
    ELSE IF value = <<"t","r","u","e">> THEN BoolValue(TRUE)
    ELSE IF value = <<"f","a","l","s","e">> THEN BoolValue(FALSE)
    ELSE IF parseFloatOk(value) THEN FloatValue(value)
    ELSE IF parseInt(value).ok THEN parseInt(value).val
    ELSE StringValue(value)

inferType(value, quoted) ==
    IF quoted THEN StringValue(value)
    ELSE IF value = <<>> THEN StringValue(<<>>)
    ELSE IF value = <<"t","r","u","e">> THEN BoolValue(TRUE)
    ELSE IF value = <<"f","a","l","s","e">> THEN BoolValue(FALSE)
    ELSE IF parseInt(value).ok THEN parseInt(value).val
    ELSE IF parseFloatOk(value) THEN FloatValue(value)
    ELSE StringValue(value)

traitRet(sr, val, raw, err) == [sr |-> sr, val |-> val, raw |-> raw, err |-> err]

\* the escape branch shared by the trait value loops: peek for the raw text,
\* then decode; returns the reader and the two buffers
traitEscape(sr, rawBuf, valueBuf) ==
    With(peek(sr), LAMBDA p :
    IF p.err # nil
    THEN [sr |-> p.sr, rawBuf |-> rawBuf, valueBuf |-> valueBuf, err |-> p.err]
    ELSE With(parseEscapeSeq(p.sr), LAMBDA e :
         IF e.err # nil
         THEN [sr |-> e.sr, rawBuf |-> rawBuf, valueBuf |-> valueBuf, err |-> e.err]
         ELSE IF e.val = <<>>
         THEN [sr |-> e.sr, rawBuf |-> rawBuf,
               valueBuf |-> Append(valueBuf, SymEscapeSeq), err |-> nil]
         ELSE [sr |-> e.sr, rawBuf |-> Append(rawBuf, p.ch),
               valueBuf |-> valueBuf \o e.val, err |-> nil]))

\* the quoted loop of parseTraitValue and of parseArrayElement
\* the variables of the loop at the start of its next turn
traitQuotedLoopAgain(sr, quoteChar, rawBuf, valueBuf) ==
    [next |-> TRUE,
     sr |-> sr, quoteChar |-> quoteChar, rawBuf |-> rawBuf,
     valueBuf |-> valueBuf]

traitQuotedLoopTurn(sr, quoteChar, rawBuf, valueBuf) ==
    With(read(sr), LAMBDA r :
    IF r.err # nil THEN traitRet(r.sr, StringValue(<<>>), rawBuf, r.err)
    ELSE IF r.ch = eof THEN traitRet(r.sr, StringValue(<<>>), rawBuf, ErrUnmatchedQuote)
    ELSE IF r.ch = SymEscapeSeq
    THEN With(traitEscape(r.sr, Append(rawBuf, r.ch), valueBuf), LAMBDA x :
         IF x.err # nil THEN traitRet(x.sr, StringValue(<<>>), x.rawBuf, x.err)
         ELSE traitQuotedLoopAgain(x.sr, quoteChar, x.rawBuf, x.valueBuf))
    ELSE IF r.ch = quoteChar
    THEN traitRet(r.sr, StringValue(valueBuf), Append(rawBuf, r.ch), nil)
    ELSE traitQuotedLoopAgain(r.sr, quoteChar, Append(rawBuf, r.ch), Append(valueBuf, r.ch)))

\* the turns of the loop, until one returns
RECURSIVE traitQuotedLoopRun(_)
traitQuotedLoopRun(st) ==
    IF "next" \in DOMAIN st
    THEN traitQuotedLoopRun(traitQuotedLoopTurn(st.sr, st.quoteChar,
             st.rawBuf, st.valueBuf))
    ELSE st

traitQuotedLoop(sr, quoteChar, rawBuf, valueBuf) ==
    traitQuotedLoopRun(traitQuotedLoopAgain(sr, quoteChar, rawBuf, valueBuf))

\* the unquoted loop of parseTraitValue (inArray = FALSE) and of
\* parseArrayElement (inArray = TRUE), which differ in the runes that end
\* the value and in the trimming before inferType
\* the variables of the loop at the start of its next turn
traitUnquotedLoopAgain(sr, inArray, rawBuf, valueBuf) ==
    [next |-> TRUE,
     sr |-> sr, inArray |-> inArray, rawBuf |-> rawBuf, valueBuf |-> valueBuf]

traitUnquotedRead(sr, inArray, rawBuf, valueBuf) ==
    With(read(sr), LAMBDA r :
    IF r.err # nil THEN traitRet(r.sr, StringValue(<<>>), rawBuf, r.err)
    ELSE IF r.ch = SymEscapeSeq
    THEN With(traitEscape(r.sr, Append(rawBuf, r.ch), valueBuf), LAMBDA x :
         IF x.err # nil THEN traitRet(x.sr, StringValue(<<>>), x.rawBuf, x.err)
         ELSE traitUnquotedLoopAgain(x.sr, inArray, x.rawBuf, x.valueBuf))
    ELSE traitUnquotedLoopAgain(r.sr, inArray, Append(rawBuf, r.ch), Append(valueBuf, r.ch)))

traitUnquotedLoopTurn(sr, inArray, rawBuf, valueBuf) ==
    With(peek(sr), LAMBDA p :
    IF p.err # nil THEN traitRet(p.sr, StringValue(<<>>), rawBuf, p.err)
    ELSE IF \/ p.ch = eof
            \/ isWhitespace(p.ch)
            \/ ~inArray /\ p.ch \in {SymCmdSep, SymTraitsStart}
            \/ inArray /\ p.ch \in {SymArraySep, SymArrayEnd}
    THEN traitRet(p.sr,
                  IF inArray THEN inferType(TrimSpace(valueBuf), FALSE)
                  ELSE inferType(valueBuf, FALSE),
                  rawBuf, nil)
    ELSE traitUnquotedRead(p.sr, inArray, rawBuf, valueBuf))

\* the turns of the loop, until one returns
RECURSIVE traitUnquotedLoopRun(_)
traitUnquotedLoopRun(st) ==
    IF "next" \in DOMAIN st
    THEN traitUnquotedLoopRun(traitUnquotedLoopTurn(st.sr, st.inArray,
             st.rawBuf, st.valueBuf))
    ELSE st

traitUnquotedLoop(sr, inArray, rawBuf, valueBuf) ==
    traitUnquotedLoopRun(traitUnquotedLoopAgain(sr, inArray, rawBuf,
        valueBuf))

\* the whitespace-skipping loops of parseTraitArray
\* the variables of the loop at the start of its next turn
arraySkipSpaceAgain(sr, rawBuf) ==
    [next |-> TRUE, sr |-> sr, rawBuf |-> rawBuf]

arraySkipSpaceTurn(sr, rawBuf) ==
    With(peek(sr), LAMBDA p :
    IF p.err # nil THEN [sr |-> p.sr, rawBuf |-> rawBuf, err |-> p.err]
    ELSE IF ~isWhitespace(p.ch) THEN [sr |-> p.sr, rawBuf |-> rawBuf, err |-> nil]
    ELSE With(read(p.sr), LAMBDA r :
         IF r.err # nil THEN [sr |-> r.sr, rawBuf |-> rawBuf, err |-> r.err]
         ELSE arraySkipSpaceAgain(r.sr, Append(rawBuf, r.ch))))

\* the turns of the loop, until one returns
RECURSIVE arraySkipSpaceRun(_)
arraySkipSpaceRun(st) ==
    IF "next" \in DOMAIN st
    THEN arraySkipSpaceRun(arraySkipSpaceTurn(st.sr, st.rawBuf))
    ELSE st

arraySkipSpace(sr, rawBuf) == arraySkipSpaceRun(arraySkipSpaceAgain(sr, rawBuf))

\* the opening quote is read, then the quoted loop
traitQuoted(sr) ==
    With(read(sr), LAMBDA r :
    IF r.err # nil THEN traitRet(r.sr, StringValue(<<>>), <<>>, r.err)
    ELSE traitQuotedLoop(r.sr, r.ch, <<r.ch>>, <<>>))

parseArrayElement(sr) ==
    With(peek(sr), LAMBDA first :
    IF first.err # nil THEN traitRet(first.sr, StringValue(<<>>), <<>>, first.err)
    ELSE IF first.ch \in {SymArgDoubleQuote, SymArgSingleQuote}
    THEN traitQuoted(first.sr)
    ELSE traitUnquotedLoop(first.sr, TRUE, <<>>, <<>>))

\* reads the closing bracket of an array
arrayClose(sr, rawBuf, elements) ==
    With(read(sr), LAMBDA r :
    IF r.err # nil THEN traitRet(r.sr, NilValue, rawBuf, r.err)
    ELSE traitRet(r.sr, ArrayValue(elements), Append(rawBuf, r.ch), nil))

\* the variables of the loop at the start of its next turn
parseTraitArrayLoopAgain(sr, rawBuf, elements) ==
    [next |-> TRUE, sr |-> sr, rawBuf |-> rawBuf, elements |-> elements]

\* after an element and the whitespace behind it: "]", "," or an error
arrayAfterElement(sr, rawBuf, elements) ==
    With(peek(sr), LAMBDA p :
    IF p.err # nil THEN traitRet(p.sr, NilValue, rawBuf, p.err)
    ELSE IF p.ch = eof THEN traitRet(p.sr, NilValue, rawBuf, ErrUnmatchedArrayBracket)
    ELSE IF p.ch = SymArrayEnd THEN arrayClose(p.sr, rawBuf, elements)
    ELSE IF p.ch = SymArraySep
    THEN With(read(p.sr), LAMBDA r :
         IF r.err # nil THEN traitRet(r.sr, NilValue, rawBuf, r.err)
         ELSE parseTraitArrayLoopAgain(r.sr, Append(rawBuf, r.ch), elements))
    ELSE traitRet(p.sr, NilValue, rawBuf, ErrUnmatchedArrayBracket))

\* one element, then the whitespace behind it
arrayElement(sr, rawBuf, elements) ==
    With(parseArrayElement(sr), LAMBDA e :
    IF e.err # nil THEN traitRet(e.sr, NilValue, rawBuf \o e.raw, e.err)
    ELSE With(arraySkipSpace(e.sr, rawBuf \o e.raw), LAMBDA w :
         IF w.err # nil THEN traitRet(w.sr, NilValue, w.rawBuf, w.err)
         ELSE arrayAfterElement(w.sr, w.rawBuf, Append(elements, e.val))))

parseTraitArrayLoopTurn(sr, rawBuf, elements) ==
    With(arraySkipSpace(sr, rawBuf), LAMBDA w :
    IF w.err # nil THEN traitRet(w.sr, NilValue, w.rawBuf, w.err)
    ELSE With(peek(w.sr), LAMBDA p :
         IF p.err # nil THEN traitRet(p.sr, NilValue, w.rawBuf, p.err)
         ELSE IF p.ch = eof
         THEN traitRet(p.sr, NilValue, w.rawBuf, ErrUnmatchedArrayBracket)
         ELSE IF p.ch = SymArrayEnd THEN arrayClose(p.sr, w.rawBuf, elements)
         ELSE arrayElement(p.sr, w.rawBuf, elements)))

\* the turns of the loop, until one returns
RECURSIVE parseTraitArrayLoopRun(_)
parseTraitArrayLoopRun(st) ==
    IF "next" \in DOMAIN st
    THEN parseTraitArrayLoopRun(parseTraitArrayLoopTurn(st.sr, st.rawBuf,
             st.elements))
    ELSE st

parseTraitArrayLoop(sr, rawBuf, elements) ==
    parseTraitArrayLoopRun(parseTraitArrayLoopAgain(sr, rawBuf, elements))

parseTraitArray(sr) ==
    With(read(sr), LAMBDA r :
    IF r.err # nil THEN traitRet(r.sr, NilValue, <<>>, r.err)
    ELSE parseTraitArrayLoop(r.sr, <<r.ch>>, <<>>))

parseTraitValue(sr) ==
    With(peek(sr), LAMBDA first :
    IF first.err # nil THEN traitRet(first.sr, StringValue(<<>>), <<>>, first.err)
    ELSE IF first.ch \in {SymArgDoubleQuote, SymArgSingleQuote}
    THEN traitQuoted(first.sr)
    ELSE IF first.ch = SymArrayStart THEN parseTraitArray(first.sr)
    ELSE traitUnquotedLoop(first.sr, FALSE, <<>>, <<>>))

(***************************************************************************)
(* Trait shorthand: #key=value #key2 ...                                   *)
(***************************************************************************)
\* the first character of a key: a letter
isAdvArgNameStart(ch) == ch \in Lower \cup Upper

\* the variables of the loop at the start of its next turn
consumeToEndOfCmdAgain(sr, buf) == [next |-> TRUE, sr |-> sr, buf |-> buf]

consumeToEndOfCmdTurn(sr, buf) ==
    With(read(sr), LAMBDA r :
    IF r.err # nil THEN [sr |-> r.sr, val |-> buf, err |-> r.err]
    ELSE IF r.ch = eof THEN [sr |-> r.sr, val |-> buf, err |-> nil]
    ELSE With(checkEndOfCmd(r.sr, r.ch), LAMBDA e :
         IF e.err # nil THEN [sr |-> e.sr, val |-> buf, err |-> e.err]
         ELSE IF e.eoc THEN [sr |-> e.sr, val |-> buf, err |-> nil]
         ELSE consumeToEndOfCmdAgain(e.sr, Append(buf, r.ch))))

\* the turns of the loop, until one returns
RECURSIVE consumeToEndOfCmdRun(_)
consumeToEndOfCmdRun(st) ==
    IF "next" \in DOMAIN st
    THEN consumeToEndOfCmdRun(consumeToEndOfCmdTurn(st.sr, st.buf))
    ELSE st

consumeToEndOfCmd(sr) == consumeToEndOfCmdRun(consumeToEndOfCmdAgain(sr, <<>>))

\* a traitsParseResult, with the reader and the error
traitsRet(sr, traits, fallback, invalidKeyName, invalidKey, err) ==
    [sr |-> sr, traits |-> traits, fallback |-> fallback,
     invalidKeyName |-> invalidKeyName, invalidKey |-> invalidKey, err |-> err]

traitsErr(sr, err) == traitsRet(sr, EmptyMap, <<>>, <<>>, FALSE, err)

\* the variables of the outer loop of parseTraitsSyntax at its next turn
parseTraitsSyntaxAgain(sr, traits, fallbackBuf) ==
    [outer |-> TRUE, sr |-> sr, traits |-> traits, fallbackBuf |-> fallbackBuf]

\* a faulty fallback: the rest of the segment is left in the reader
traitsFallbackNoConsume(sr, traits, fallbackBuf, key, nameIsText) ==
    traitsRet(sr, traits, fallbackBuf, IF nameIsText THEN fallbackBuf ELSE key, TRUE, nil)

\* the rest of the segment is consumed and returned as the fallback; the
\* name of the invalid key is the text so far, or the key alone
traitsFallback(sr, traits, fallbackBuf, key, nameIsText) ==
    With(consumeToEndOfCmd(sr), LAMBDA c :
    IF c.err # nil THEN traitsErr(c.sr, c.err)
    ELSE traitsRet(c.sr, traits, fallbackBuf \o c.val,
                   IF nameIsText THEN fallbackBuf \o c.val ELSE key, TRUE, nil))

\* the loop that reads the rest of the key
traitKeyLoopAgain(sr, key, fallbackBuf) ==
    [next |-> TRUE, sr |-> sr, key |-> key, fallbackBuf |-> fallbackBuf]

traitKeyLoopTurn(sr, key, fallbackBuf) ==
    With(peek(sr), LAMBDA p :
    IF p.err # nil
    THEN [sr |-> p.sr, key |-> key, fallbackBuf |-> fallbackBuf, err |-> p.err]
    ELSE IF p.ch = eof \/ ~isAdvArgName(p.ch)
    THEN [sr |-> p.sr, key |-> key, fallbackBuf |-> fallbackBuf, err |-> nil]
    ELSE With(read(p.sr), LAMBDA r :
         IF r.err # nil
         THEN [sr |-> r.sr, key |-> key, fallbackBuf |-> fallbackBuf, err |-> r.err]
         ELSE traitKeyLoopAgain(r.sr, Append(key, ToLowerRune(r.ch)),
                                Append(fallbackBuf, r.ch))))

RECURSIVE traitKeyLoopRun(_)
traitKeyLoopRun(st) ==
    IF "next" \in DOMAIN st
    THEN traitKeyLoopRun(traitKeyLoopTurn(st.sr, st.key, st.fallbackBuf))
    ELSE st

traitKeyLoop(sr, key, fallbackBuf) ==
    traitKeyLoopRun(traitKeyLoopAgain(sr, key, fallbackBuf))

\* the loop after a trait was stored: the next trait, whitespace, or the end
traitNextLoopAgain(sr, traits, fallbackBuf) ==
    [next |-> TRUE, sr |-> sr, traits |-> traits, fallbackBuf |-> fallbackBuf]

traitsDone(sr, traits) == traitsRet(sr, traits, <<>>, <<>>, FALSE, nil)

\* next == SymCmdSep: one "|" is read and tested for the end of the command
traitNextSep(sr, traits, fallbackBuf) ==
    With(read(sr), LAMBDA r :
    IF r.err # nil THEN traitsErr(r.sr, r.err)
    ELSE With(checkEndOfCmd(r.sr, r.ch), LAMBDA e :
         IF e.err # nil THEN traitsErr(e.sr, e.err)
         ELSE IF e.eoc THEN traitsDone(e.sr, traits)
         ELSE traitNextLoopAgain(e.sr, traits, Append(fallbackBuf, r.ch))))

traitNextLoopTurn(sr, traits, fallbackBuf) ==
    With(peek(sr), LAMBDA p :
    IF p.err # nil THEN traitsErr(p.sr, p.err)
    ELSE IF p.ch = eof THEN traitsDone(p.sr, traits)
    ELSE IF p.ch = SymCmdSep THEN traitNextSep(p.sr, traits, fallbackBuf)
    ELSE IF isWhitespace(p.ch)
    THEN With(read(p.sr), LAMBDA r :
         IF r.err # nil THEN traitsErr(r.sr, r.err)
         ELSE traitNextLoopAgain(r.sr, traits, Append(fallbackBuf, r.ch)))
    ELSE IF p.ch = SymTraitsStart
    THEN With(read(p.sr), LAMBDA r :
         IF r.err # nil THEN traitsErr(r.sr, r.err)
         ELSE parseTraitsSyntaxAgain(r.sr, traits, Append(fallbackBuf, r.ch)))
    ELSE traitsDone(p.sr, traits))

RECURSIVE traitNextLoopRun(_)
traitNextLoopRun(st) ==
    IF "next" \in DOMAIN st
    THEN traitNextLoopRun(traitNextLoopTurn(st.sr, st.traits, st.fallbackBuf))
    ELSE st

traitNextLoop(sr, traits, fallbackBuf) ==
    traitNextLoopRun(traitNextLoopAgain(sr, traits, fallbackBuf))

\* case next == SymAdvArgEq: the "=" is consumed and the value parsed
traitWithValue(sr, traits, fallbackBuf, key) ==
    With(read(sr), LAMBDA r :
    IF r.err # nil THEN traitsErr(r.sr, r.err)
    ELSE With(parseTraitValue(r.sr), LAMBDA v :
         IF v.err # nil THEN traitsErr(v.sr, v.err)
         ELSE traitNextLoop(v.sr, MapSet(traits, key, v.val),
                            Append(fallbackBuf, r.ch) \o v.raw)))

\* a faulty switch: any character after the key ends a boolean trait
traitAfterKeyAnyEnd(sr, traits, fallbackBuf, key) ==
    With(peek(sr), LAMBDA p :
    IF p.err # nil THEN traitsErr(p.sr, p.err)
    ELSE IF p.ch = SymAdvArgEq THEN traitWithValue(p.sr, traits, fallbackBuf, key)
    ELSE traitNextLoop(p.sr, MapSet(traits, key, BoolValue(TRUE)), fallbackBuf))

\* the switch on what comes after the key
traitAfterKey(sr, traits, fallbackBuf, key) ==
    With(peek(sr), LAMBDA p :
    IF p.err # nil THEN traitsErr(p.sr, p.err)
    ELSE IF p.ch = SymAdvArgEq THEN traitWithValue(p.sr, traits, fallbackBuf, key)
    ELSE IF p.ch = eof \/ p.ch = SymCmdSep \/ p.ch = SymTraitsStart \/ isWhitespace(p.ch)
    THEN traitNextLoop(p.sr, MapSet(traits, key, BoolValue(TRUE)), fallbackBuf)
    ELSE traitsFallback(p.sr, traits, fallbackBuf, key, FALSE))

\* a faulty turn: the first character of the key keeps its case
parseTraitsSyntaxTurnKeepCase(sr, traits, fallbackBuf) ==
    With(read(sr), LAMBDA r :
    IF r.err # nil THEN traitsErr(r.sr, r.err)
    ELSE IF r.ch = eof THEN traitsDone(r.sr, traits)
    ELSE IF ~isAdvArgNameStart(r.ch)
    THEN traitsFallback(r.sr, traits, Append(fallbackBuf, r.ch), <<>>, TRUE)
    ELSE With(traitKeyLoop(r.sr, <<r.ch>>, Append(fallbackBuf, r.ch)),
              LAMBDA k :
         IF k.err # nil THEN traitsErr(k.sr, k.err)
         ELSE traitAfterKey(k.sr, traits, k.fallbackBuf, k.key)))

\* one turn of the outer loop: one trait
parseTraitsSyntaxTurn(sr, traits, fallbackBuf) ==
    With(read(sr), LAMBDA r :
    IF r.err # nil THEN traitsErr(r.sr, r.err)
    ELSE IF r.ch = eof THEN traitsDone(r.sr, traits)
    ELSE IF ~isAdvArgNameStart(r.ch)
    THEN traitsFallback(r.sr, traits, Append(fallbackBuf, r.ch), <<>>, TRUE)
    ELSE With(traitKeyLoop(r.sr, <<ToLowerRune(r.ch)>>, Append(fallbackBuf, r.ch)),
              LAMBDA k :
         IF k.err # nil THEN traitsErr(k.sr, k.err)
         ELSE traitAfterKey(k.sr, traits, k.fallbackBuf, k.key)))

RECURSIVE parseTraitsSyntaxRun(_)
parseTraitsSyntaxRun(st) ==
    IF "outer" \in DOMAIN st
    THEN parseTraitsSyntaxRun(parseTraitsSyntaxTurn(st.sr, st.traits, st.fallbackBuf))
    ELSE st

parseTraitsSyntax(sr) ==
    parseTraitsSyntaxRun(parseTraitsSyntaxAgain(sr, EmptyMap, <<SymTraitsStart>>))

(***************************************************************************)
(* The dispatcher                                                          *)
(***************************************************************************)
\* Script{}: the zero value; Traits is a nil map
\* invalidTraitKey is the local of ParseScript that remembers a "#" segment
\* with an invalid key
EmptyScript == [Cmds |-> <<>>, Traits |-> EmptyMap, invalidTraitKey |-> FALSE]

scriptRet(script0, err) == [Cmds |-> script0.Cmds, Traits |-> script0.Traits, err |-> err]

AddCmd(script0, cmd) == [script0 EXCEPT !.Cmds = Append(@, cmd)]

\* the variables of the loop at the start of its next turn
ParseScriptLoopAgain(sr, script0) ==
    [next |-> TRUE, sr |-> sr, script0 |-> script0]

\* the closure parseAutoLaunchCmd of ParseScript, then the loop again
parseAutoLaunchCmd(sr, script0, prefix) ==
    With(parseArgs(sr, prefix, FALSE, TRUE), LAMBDA a :
    IF a.err # nil THEN scriptRet(script0, a.err)
    ELSE ParseScriptLoopAgain(a.sr,
             AddCmd(script0,
                    [Name |-> ZapScriptCmdLaunch,
                     Args |-> a.args,
                     AdvArgs |-> IF a.advArgs # EmptyMap
                                 THEN NewAdvArgs(a.advArgs) ELSE NilAdvArgs])))

\* the prefix of the auto-launch command that a dispatch case falls back to;
\* none is TRUE when the case does not fall back
autoRet(sr, script0, prefix) ==
    [none |-> FALSE, sr |-> sr, script |-> script0, prefix |-> prefix, err |-> nil]
doneRet(sr, script0, err) ==
    [none |-> TRUE, sr |-> sr, script |-> script0, prefix |-> <<>>, err |-> err]

\* case ch == SymMediaTitleStart
mediaTitleCase(sr, script0) ==
    With(parseMediaTitleSyntax(sr), LAMBDA m :
    IF m.err # nil THEN doneRet(m.sr, script0, m.err)
    ELSE IF ~m.valid
    THEN autoRet(m.sr, script0, <<SymMediaTitleStart>> \o m.rawContent)
    ELSE doneRet(m.sr,
             AddCmd(script0,
                    [Name |-> ZapScriptCmdLaunchTitle,
                     Args |-> <<m.rawContent>>,
                     AdvArgs |-> IF m.advArgs # EmptyMap
                                 THEN NewAdvArgs(m.advArgs) ELSE NilAdvArgs]),
             nil))

\* the traits of a "#" segment merged into the traits of the script: a
\* key that is there already takes the new value
MergeTraits(script0, traits) ==
    [script0 EXCEPT !.Traits = {e \in @ : e[1] \notin MapKeys(traits)} \cup traits]

\* a value decoded by encoding/json into an `any`, kept as the bytes
\* Marshal writes for it
JSONValue(out) == [type |-> "json", val |-> out]

\* the members of the object whose Marshal bytes are s, read from index i
\* (the index after "{" or after a ","): key and decoded value
RECURSIVE jsonTraits(_, _, _)
jsonTraits(s, i, traits) ==
    IF s[i] = "}" THEN traits
    ELSE With(jsonString(s, i + 1, <<>>), LAMBDA k :
         With(jsonValue(s, k.i + 1), LAMBDA v :
         jsonTraits(s, IF s[v.i] = "," THEN v.i + 1 ELSE v.i,
                    MapSet(traits, k.key, JSONValue(v.out)))))

ZapScriptCmdTraits == <<"t","r","a","i","t","s">>

\* the command named traits: its single argument is parsed as JSON and the
\* members of the object are merged into the traits of the script; the
\* command is not recorded.  (part_005 has no such case; this one follows
\* the specification and the tests of ParseScript, which give the case of
\* one argument that is a JSON object.  Any other argument list is taken
\* here as invalid JSON.)
traitsCmdCase(sr, script0, cmd) ==
    IF Len(cmd.Args) # 1 THEN doneRet(sr, script0, ErrInvalidJSON)
    ELSE With(jsonRoundTrip(cmd.Args[1]), LAMBDA j :
         IF ~j.ok \/ j.out[1] # SymJSONStart THEN doneRet(sr, script0, ErrInvalidJSON)
         ELSE doneRet(sr, MergeTraits(script0, jsonTraits(j.out, 2, EmptyMap)), nil))

\* case ch == SymCmdStart, after the second "*" was skipped
cmdCase(sr, script0) ==
    With(parseCommand(sr, FALSE), LAMBDA c :
    IF c.err = ErrInvalidCmdName
    THEN autoRet(c.sr, script0, <<SymCmdStart, SymCmdStart>> \o c.buf)
    ELSE IF c.err # nil THEN doneRet(c.sr, script0, c.err)
    ELSE IF c.cmd.Name = ZapScriptCmdTraits THEN traitsCmdCase(c.sr, script0, c.cmd)
    ELSE doneRet(c.sr, AddCmd(script0, c.cmd), nil))

\* case ch == SymCmdStart
cmdStartCase(sr, script0) ==
    With(peek(sr), LAMBDA p :
    IF p.err # nil THEN doneRet(p.sr, script0, p.err)
    ELSE IF p.ch = eof THEN doneRet(p.sr, script0, ErrUnexpectedEOF)
    ELSE IF p.ch # SymCmdStart THEN autoRet(p.sr, script0, <<SymCmdStart>>)
    ELSE With(skip(p.sr), LAMBDA k :
         IF k.err # nil THEN doneRet(k.sr, script0, k.err)
         ELSE cmdCase(k.sr, script0)))

\* the default case: the rune goes back and starts an auto-launch command
defaultCase(sr, script0) ==
    With(unread(sr), LAMBDA u :
    IF u.err # nil THEN doneRet(u.sr, script0, u.err)
    ELSE autoRet(u.sr, script0, <<>>))

\* case ch == SymTraitsStart: the traits of the segment are merged into the
\* script; a segment with an invalid key adds nothing and is remembered.
\* (The switch in part_005 has no such case; this one, MergeTraits and
\* endOfScript follow the specification and the tests of ParseScript.)
traitsCase(sr, script0) ==
    With(parseTraitsSyntax(sr), LAMBDA t :
    IF t.err # nil THEN doneRet(t.sr, script0, t.err)
    ELSE IF t.invalidKey
    THEN doneRet(t.sr, [script0 EXCEPT !.invalidTraitKey = TRUE], nil)
    ELSE doneRet(t.sr, MergeTraits(script0, t.traits), nil))

\* the end of the input: a script without commands is an error unless it
\* has traits; the error names the invalid trait key when there was one
endOfScript(script0) ==
    IF Len(script0.Cmds) > 0 \/ script0.Traits # EmptyMap THEN scriptRet(script0, nil)
    ELSE IF script0.invalidTraitKey THEN scriptRet(script0, ErrInvalidTraitKey)
    ELSE scriptRet(script0, ErrEmptyZapScript)

\* the switch of the loop of ParseScript on a rune that is not whitespace
dispatch(sr, ch, script0) ==
    IF sr.pos = 1 /\ ch = SymJSONStart THEN doneRet(sr, EmptyScript, ErrInvalidJSON)
    ELSE IF ch = SymTraitsStart THEN traitsCase(sr, script0)
    ELSE IF ch = SymMediaTitleStart THEN mediaTitleCase(sr, script0)
    ELSE IF ch = SymCmdStart THEN cmdStartCase(sr, script0)
    ELSE defaultCase(sr, script0)

\* after the switch: return the error, run the auto-launch fallback, or loop
afterDispatch(d) ==
    IF d.err # nil THEN scriptRet(d.script, d.err)
    ELSE IF ~d.none THEN parseAutoLaunchCmd(d.sr, d.script, d.prefix)
    ELSE ParseScriptLoopAgain(d.sr, d.script)

\* a faulty turn: at the end of the input the script is returned as it is
ParseScriptLoopTurnEmptyOk(sr, script0) ==
    With(read(sr), LAMBDA r :
    IF r.err # nil THEN scriptRet(script0, r.err)
    ELSE IF r.ch = eof
    THEN scriptRet(script0, nil)
    ELSE IF isWhitespace(r.ch) THEN ParseScriptLoopAgain(r.sr, script0)
    ELSE afterDispatch(dispatch(r.sr, r.ch, script0)))

\* one turn of the loop of ParseScript: one rune is read and dispatched
ParseScriptLoopTurn(sr, script0) ==
    With(read(sr), LAMBDA r :
    IF r.err # nil THEN scriptRet(script0, r.err)
    ELSE IF r.ch = eof
    THEN endOfScript(script0)
    ELSE IF isWhitespace(r.ch) THEN ParseScriptLoopAgain(r.sr, script0)
    ELSE afterDispatch(dispatch(r.sr, r.ch, script0)))

\* the turns of the loop, until one returns
RECURSIVE ParseScriptLoopRun(_)
ParseScriptLoopRun(st) ==
    IF "next" \in DOMAIN st
    THEN ParseScriptLoopRun(ParseScriptLoopTurn(st.sr, st.script0))
    ELSE st

ParseScriptLoop(sr, script0) ==
    ParseScriptLoopRun(ParseScriptLoopAgain(sr, script0))

\* ParseScript over a fresh reader: NewParser(value).ParseScript()
ParseScript(value) == ParseScriptLoop(NewParser(value), EmptyScript)

(***************************************************************************)
(* ParseExpressions and EvalExpressions                                    *)
(***************************************************************************)
\* the variables of the loop at the start of its next turn
ParseExpressionsLoopAgain(sr, result) ==
    [next |-> TRUE, sr |-> sr, result |-> result]

ParseExpressionsLoopTurn(sr, result) ==
    With(read(sr), LAMBDA r :
    IF r.err # nil THEN [sr |-> r.sr, val |-> result, err |-> r.err]
    ELSE IF r.ch = eof THEN [sr |-> r.sr, val |-> result, err |-> nil]
    ELSE IF r.ch = SymEscapeSeq
    THEN With(parseEscapeSeq(r.sr), LAMBDA e :
         IF e.err # nil THEN [sr |-> e.sr, val |-> result, err |-> e.err]
         ELSE ParseExpressionsLoopAgain(e.sr, result \o e.val))
    ELSE IF r.ch = SymExpressionStart
    THEN With(parseExpression(r.sr), LAMBDA x :
         IF x.err # nil THEN [sr |-> x.sr, val |-> result, err |-> x.err]
         ELSE ParseExpressionsLoopAgain(x.sr, result \o x.val))
    ELSE ParseExpressionsLoopAgain(r.sr, Append(result, r.ch)))

\* the turns of the loop, until one returns
RECURSIVE ParseExpressionsLoopRun(_)
ParseExpressionsLoopRun(st) ==
    IF "next" \in DOMAIN st
    THEN ParseExpressionsLoopRun(ParseExpressionsLoopTurn(st.sr, st.result))
    ELSE st

ParseExpressions(value) ==
    ParseExpressionsLoopRun(ParseExpressionsLoopAgain(NewParser(value), <<>>))

\* the variables of the loop at the start of its next turn
parsePostExpressionAgain(sr, rawExpr) ==
    [next |-> TRUE, sr |-> sr, rawExpr |-> rawExpr]

parsePostExpressionTurn(sr, rawExpr) ==
    With(read(sr), LAMBDA r :
    IF r.err # nil THEN [sr |-> r.sr, val |-> rawExpr, err |-> r.err]
    ELSE IF r.ch = eof
    THEN [sr |-> r.sr, val |-> rawExpr, err |-> ErrUnmatchedExpression]
    ELSE IF r.ch = TokExprEnd THEN [sr |-> r.sr, val |-> rawExpr, err |-> nil]
    ELSE parsePostExpressionAgain(r.sr, Append(rawExpr, r.ch)))

\* the turns of the loop, until one returns
RECURSIVE parsePostExpressionRun(_)
parsePostExpressionRun(st) ==
    IF "next" \in DOMAIN st
    THEN parsePostExpressionRun(parsePostExpressionTurn(st.sr, st.rawExpr))
    ELSE st

parsePostExpression(sr) ==
    parsePostExpressionRun(parsePostExpressionAgain(sr, <<>>))

ArgPartTypeUnknown == "unknown"
ArgPartTypeString == "string"
ArgPartTypeExpression == "expression"

PostArgPart(type, value) == [Type |-> type, Value |-> value]

\* the parts with currentPart appended unless it is the zero PostArgPart
flushPart(parts, currentPart) ==
    IF currentPart.Type # ArgPartTypeUnknown THEN Append(parts, currentPart)
    ELSE parts

\* the variables of the loop at the start of its next turn
evalPartsLoopAgain(sr, parts, currentPart) ==
    [next |-> TRUE, sr |-> sr, parts |-> parts, currentPart |-> currentPart]

\* a faulty turn: the string part before an expression is not kept
evalPartsLoopTurnNoFlush(sr, parts, currentPart) ==
    With(read(sr), LAMBDA r :
    IF r.err # nil THEN [parts |-> <<>>, err |-> r.err]
    ELSE IF r.ch = eof
    THEN [parts |-> flushPart(parts, currentPart), err |-> nil]
    ELSE IF r.ch = TokExpStart
    THEN With(parsePostExpression(r.sr), LAMBDA x :
         IF x.err # nil THEN [parts |-> <<>>, err |-> x.err]
         ELSE evalPartsLoopAgain(x.sr,
                  Append(parts, PostArgPart(ArgPartTypeExpression, x.val)),
                  PostArgPart(ArgPartTypeUnknown, <<>>)))
    ELSE evalPartsLoopAgain(r.sr, parts,
             PostArgPart(ArgPartTypeString, Append(currentPart.Value, r.ch))))

\* the first loop of EvalExpressions: the text cut into parts
evalPartsLoopTurn(sr, parts, currentPart) ==
    With(read(sr), LAMBDA r :
    IF r.err # nil THEN [parts |-> <<>>, err |-> r.err]
    ELSE IF r.ch = eof
    THEN [parts |-> flushPart(parts, currentPart), err |-> nil]
    ELSE IF r.ch = TokExpStart
    THEN With(parsePostExpression(r.sr), LAMBDA x :
         IF x.err # nil THEN [parts |-> <<>>, err |-> x.err]
         ELSE evalPartsLoopAgain(x.sr,
                  Append(flushPart(parts, currentPart),
                         PostArgPart(ArgPartTypeExpression, x.val)),
                  PostArgPart(ArgPartTypeUnknown, <<>>)))
    ELSE evalPartsLoopAgain(r.sr, parts,
             PostArgPart(ArgPartTypeString, Append(currentPart.Value, r.ch))))

\* the turns of the loop, until one returns
RECURSIVE evalPartsLoopRun(_)
evalPartsLoopRun(st) ==
    IF "next" \in DOMAIN st
    THEN evalPartsLoopRun(evalPartsLoopTurn(st.sr, st.parts, st.currentPart))
    ELSE st

evalPartsLoop(sr) ==
    evalPartsLoopRun(
        evalPartsLoopAgain(sr, <<>>, PostArgPart(ArgPartTypeUnknown, <<>>)))

\* expr.Eval(part.Value, exprEnv).  The engine is a library outside the
\* repository: an environment is taken as the table of its outcomes, by
\* the first character of the expression.  A float64 is the digits m with
\* p of them before the decimal point.
exprOutput(type, val) == [err |-> nil, type |-> type, val |-> val]

exprEval(value, exprEnv) ==
    IF exprEnv = "failing" \/ value = <<>>
    THEN [err |-> errEvalExpression, type |-> "nil", val |-> <<>>]
    ELSE CASE value[1] = "a" -> exprOutput("string", <<"<">> \o value \o <<">">>)
           [] value[1] = "b" -> exprOutput("bool", Len(value) = 1)
           [] value[1] = "c" -> exprOutput("int", Len(value) + 9)
           [] value[1] = "d" -> exprOutput("float64", [m |-> <<"2","5">>, p |-> Len(value)])
           [] OTHER -> exprOutput("nil", <<>>)

\* the switch on the type of the output, lines 242-253
formatOutput(out) ==
    CASE out.type = "string" -> [val |-> out.val, err |-> nil]
      [] out.type = "bool" ->
            [val |-> IF out.val THEN <<"t","r","u","e">> ELSE <<"f","a","l","s","e">>,
             err |-> nil]
      [] out.type = "int" -> [val |-> DigitsOf(out.val), err |-> nil]
      [] out.type = "float64" ->
            [val |-> IF out.val.p >= Len(out.val.m)
                     THEN out.val.m \o Zeros(out.val.p - Len(out.val.m))
                     ELSE SubSeq(out.val.m, 1, out.val.p) \o <<".">>
                          \o SubSeq(out.val.m, out.val.p + 1, Len(out.val.m)),
             err |-> nil]
      [] OTHER -> [val |-> <<>>, err |-> ErrBadExpressionReturn]

\* one part written to the result builder
writePart(part, exprEnv) ==
    IF part.Type = ArgPartTypeExpression
    THEN With(exprEval(part.Value, exprEnv), LAMBDA o :
         IF o.err # nil THEN [val |-> <<>>, err |-> o.err] ELSE formatOutput(o))
    ELSE [val |-> part.Value, err |-> nil]

\* the second loop of EvalExpressions: the parts from the i-th on
RECURSIVE writeParts(_, _, _, _)
writeParts(parts, i, exprEnv, result) ==
    IF i > Len(parts) THEN [val |-> result, err |-> nil]
    ELSE With(writePart(parts[i], exprEnv), LAMBDA w :
         IF w.err # nil THEN [val |-> <<>>, err |-> w.err]
         ELSE writeParts(parts, i + 1, exprEnv, result \o w.val))

EvalExpressions(value, exprEnv) ==
    With(evalPartsLoop(NewParser(value)), LAMBDA ps :
    IF ps.err # nil THEN [val |-> <<>>, err |-> ps.err]
    ELSE writeParts(ps.parts, 1, exprEnv, <<>>))

(***************************************************************************)
(* The state machine: a text is handed to ParseScript, to the trait value  *)
(* scanner, to ParseExpressions or to EvalExpressions, and the result is   *)
(* kept; the text ParseExpressions returned may be handed on to            *)
(* EvalExpressions.                                                        *)
(*   input  - the text given to NewParser                                  *)
(*   phase  - "new" before a call, "script" after ParseScript,             *)
(*            "value" after parseTraitValue, "expressions" after           *)
(*            ParseExpressions, "evaluated" after EvalExpressions          *)
(*   script - what ParseScript returned: the Script and the error          *)
(*   traitValue - what parseTraitValue returned, with the reader it left   *)
(*   expressions - what ParseExpressions returned, with its reader         *)
(*   evaluated - what EvalExpressions returned, with the text and the      *)
(*            environment it was given                                     *)
(*   maps   - the map[string]string objects that exist, by address         *)
(*   advs   - the AdvArgs containers that exist, in the order they were    *)
(*            made; each holds the address of its raw map                  *)
(***************************************************************************)
RECURSIVE Flatten(_)
Flatten(ss) == IF ss = <<>> THEN <<>> ELSE Head(ss) \o Flatten(Tail(ss))

\* the texts made of lo..hi pieces taken from atoms
Texts(atoms, lo, hi) ==
    {Flatten(f) : f \in UNION {[1..k -> atoms] : k \in lo..hi}}

NoScript == scriptRet(EmptyScript, nil)
NoValue == traitRet(NewParser(<<>>), NilValue, <<>>, nil)
NoExpressions == [sr |-> NewParser(<<>>), val |-> <<>>, err |-> nil]

\* the environments EvalExpressions is given
ExprEnvs == {"values", "failing"}

\* a call of EvalExpressions and what it returned
Evaluation(text, exprEnv) ==
    With(EvalExpressions(text, exprEnv), LAMBDA e :
    [text |-> text, exprEnv |-> exprEnv, val |-> e.val, err |-> e.err])

NoEvaluated == [text |-> <<>>, exprEnv |-> "values", val |-> <<>>, err |-> nil]

InitWith(inputs) ==
    /\ input \in inputs
    /\ phase = "new"
    /\ script = NoScript
    /\ traitValue = NoValue
    /\ expressions = NoExpressions
    /\ evaluated = NoEvaluated
    /\ maps = <<>>
    /\ advs = <<>>

CallParseScript ==
    /\ phase = "new"
    /\ script' = ParseScript(input)
    /\ phase' = "script"
    /\ UNCHANGED <<input, traitValue, expressions, evaluated, maps, advs>>

CallParseTraitValue ==
    /\ phase = "new"
    /\ traitValue' = parseTraitValue(NewParser(input))
    /\ phase' = "value"
    /\ UNCHANGED <<input, script, expressions, evaluated, maps, advs>>

CallParseExpressions ==
    /\ phase = "new"
    /\ expressions' = ParseExpressions(input)
    /\ phase' = "expressions"
    /\ UNCHANGED <<input, script, traitValue, evaluated, maps, advs>>

\* EvalExpressions on the input, or on the text ParseExpressions returned
CallEvalExpressions ==
    /\ \/ phase = "new"
       \/ phase = "expressions" /\ expressions.err = nil
    /\ \E exprEnv \in ExprEnvs :
           evaluated' = Evaluation(IF phase = "new" THEN input ELSE expressions.val,
                                   exprEnv)
    /\ phase' = "evaluated"
    /\ UNCHANGED <<input, script, traitValue, expressions, maps, advs>>

Next ==
    \/ CallParseScript
    \/ CallParseTraitValue
    \/ CallParseExpressions
    \/ CallEvalExpressions

MaxLen == 3

\* one-rune pieces: syntax characters, ordinary text, U+0000 and U+FFFD
Atoms ==
    {<<"a">>, <<"*">>, <<"|">>, <<":">>, <<"?">>, <<"=">>, <<"[">>, <<"]">>,
     <<"\"">>, <<"{">>, <<"@">>, <<"/">>, <<"^">>, <<" ">>, <<",">>,
     <<NUL>>, <<RuneError>>}

Init == InitWith(Texts(Atoms, 0, MaxLen))

Spec == Init /\ [][Next]_vars

Parsed == phase = "script"
Succeeded == Parsed /\ script.err = nil

(***************************************************************************)
(* C1: ParseScript ends with a Script and a nil error, or with one of the  *)
(* named hard errors; never with a cursor failure (read, peek, unread) and *)
(* never with ErrInvalidCmdName or ErrInvalidAdvArgName.                   *)
(***************************************************************************)
HardErrors ==
    {ErrEmptyZapScript, ErrUnexpectedEOF, ErrEmptyCmdName, ErrUnmatchedQuote,
     ErrInvalidJSON, ErrUnmatchedExpression, ErrUnmatchedInputMacroExt,
     ErrUnmatchedArrayBracket, ErrInvalidTraitKey}

C1_OnlyNamedOutcomes ==
    Parsed => script.err \in {nil} \cup HardErrors

\* a command without advanced arguments, and the auto-launch command
Cmd(name, args) == [Name |-> name, Args |-> args, AdvArgs |-> NilAdvArgs]
Launch(arg) == Cmd(ZapScriptCmdLaunch, <<arg>>)

(***************************************************************************)
(* Chains: two segments with two, three or four "|" between them           *)
(***************************************************************************)
MaxSegAtoms == 2

ChainAtoms == {<<"*","*","a">>, <<"*","*","b">>, <<":","x">>, <<"y">>}

\* the segments: texts that parse on their own
ChainSegs == {t \in Texts(ChainAtoms, 1, MaxSegAtoms) : ParseScript(t).err = nil}

ChainSeps == {<<"|","|">>, <<"|","|","|">>, <<"|","|","|","|">>}

InitChain ==
    InitWith({A \o sep \o B : <<A, sep, B>> \in ChainSegs \X ChainSeps \X ChainSegs})

SpecChain == InitChain /\ [][Next]_vars

\* the input as A, a run of "|" and B: the segments hold no "|"
FirstPipe == CHOOSE i \in DOMAIN input :
                 input[i] = SymCmdSep /\ \A j \in 1..(i - 1) : input[j] # SymCmdSep
LastPipe == CHOOSE i \in DOMAIN input :
                input[i] = SymCmdSep
                /\ \A j \in (i + 1)..Len(input) : input[j] # SymCmdSep
ChainA == SubSeq(input, 1, FirstPipe - 1)
ChainB == SubSeq(input, LastPipe + 1, Len(input))
ChainPipes == LastPipe - FirstPipe + 1

(***************************************************************************)
(* C2: chain terminator idempotence.  For segments A and B, each of A||B,  *)
(* A|||B and A||||B parses to exactly the commands of A followed by the    *)
(* commands of B.                                                          *)
(***************************************************************************)
C2_ChainIdempotent ==
    Parsed =>
        /\ script.err = nil
        /\ script.Cmds = ParseScript(ChainA).Cmds \o ParseScript(ChainB).Cmds

(***************************************************************************)
(* C2 as amended: only the first two "|" are the terminator.  A||B parses  *)
(* to the commands of A followed by the commands of B; in A|||B the third  *)
(* "|" opens the next segment, an auto-launch of "|" followed by the text  *)
(* of B; in A||||B the second pair ends an auto-launch segment with an     *)
(* empty argument, and the commands of B follow it.                        *)
(***************************************************************************)
C2_ChainTerminator ==
    Parsed =>
        /\ script.err = nil
        /\ script.Cmds =
               ParseScript(ChainA).Cmds \o
               CASE ChainPipes = 2 -> ParseScript(ChainB).Cmds
                 [] ChainPipes = 3 -> <<Launch(<<SymCmdSep>> \o ChainB)>>
                 [] ChainPipes = 4 -> <<Launch(<<>>)>> \o ParseScript(ChainB).Cmds

\* C2: a third "|" between two commands has become the start of a launch
C2_Witness ==
    /\ Parsed
    /\ ChainPipes = 3
    /\ ParseScript(ChainB).Cmds # <<Launch(ChainB)>>
    /\ script.Cmds[Len(script.Cmds)] = Launch(<<SymCmdSep>> \o ChainB)

(***************************************************************************)
(* Media titles: "@", a content, an optional advanced-argument region and  *)
(* an optional next segment                                                *)
(***************************************************************************)
MaxTitleLen == 3

MediaContents == Texts({<<"s">>, <<"/">>, <<"t">>}, 0, MaxTitleLen)
MediaAdv == {<<>>, <<"?","k","=","v">>}
MediaRest == {<<>>, <<"*","*","b">>, <<"x">>}

\* the text of a segment, with the terminator and the next segment if any
Chained(seg, rest) == IF rest = <<>> THEN seg ELSE seg \o <<"|","|">> \o rest

InitMedia ==
    InitWith({Chained(<<"@">> \o c \o adv, rest) :
                 <<c, adv, rest>> \in MediaContents \X MediaAdv \X MediaRest})

SpecMedia == InitMedia /\ [][Next]_vars

\* the advanced arguments that the region "?k=v" stands for
MediaAdvArgs(adv) ==
    IF adv = <<>> THEN NilAdvArgs ELSE NewAdvArgs({<<<<"k">>, <<"v">>>>})

\* the commands of the segment after the terminator
RestCmds(rest) == IF rest = <<>> THEN <<>> ELSE ParseScript(rest).Cmds

\* a "/" with text on both sides
ValidTitle(c) ==
    \E i \in DOMAIN c :
        /\ c[i] = "/"
        /\ \A j \in 1..(i - 1) : c[j] # "/"
        /\ TrimSpace(SubSeq(c, 1, i - 1)) # <<>>
        /\ TrimSpace(SubSeq(c, i + 1, Len(c))) # <<>>

(***************************************************************************)
(* C3: media-title dispatch.  A segment "@content" with a valid content    *)
(* yields one launch.title command whose argument is the content, with the *)
(* parsed advanced arguments; any other content yields one launch command  *)
(* whose argument is the text of the segment (the advanced arguments kept  *)
(* in the text or parsed), never an error, and the next segment follows.   *)
(***************************************************************************)
C3_MediaTitleDispatch ==
    Parsed =>
        \A c \in MediaContents, adv \in MediaAdv, rest \in MediaRest :
            input = Chained(<<"@">> \o c \o adv, rest) =>
                /\ script.err = nil
                /\ IF ValidTitle(c)
                   THEN script.Cmds =
                            <<[Name |-> ZapScriptCmdLaunchTitle, Args |-> <<c>>,
                               AdvArgs |-> MediaAdvArgs(adv)]>> \o RestCmds(rest)
                   ELSE \/ script.Cmds =
                               <<Launch(<<"@">> \o c \o adv)>> \o RestCmds(rest)
                        \/ script.Cmds =
                               <<[Name |-> ZapScriptCmdLaunch,
                                  Args |-> <<<<"@">> \o c>>,
                                  AdvArgs |-> MediaAdvArgs(adv)]>> \o RestCmds(rest)

(***************************************************************************)
(* Auto-launch: a text that starts with none of "@", "#", "*"              *)
(***************************************************************************)
MaxAutoLen == 4

AutoAtoms == {<<"a">>, <<",">>, <<"\"">>, <<"'">>, <<"{">>, <<"}">>, <<" ">>}

InitAuto == InitWith(Texts(AutoAtoms, 1, MaxAutoLen))

SpecAuto == InitAuto /\ [][Next]_vars

(***************************************************************************)
(* C4: auto-launch.  A text without terminator whose first significant     *)
(* character is none of "@", "#", "*", and not "{" as the very first       *)
(* character, yields one launch command with the one argument equal to     *)
(* the trimmed text: commas, quotes and braces are literal, also in first  *)
(* place.                                                                  *)
(***************************************************************************)
C4_AutoLaunchVerbatim ==
    Parsed /\ TrimSpace(input) # <<>>
           /\ TrimSpace(input)[1] \notin {"@", "#", "*"}
           /\ input[1] # "{"
        => /\ script.err = nil
           /\ script.Cmds = <<Launch(TrimSpace(input))>>

(***************************************************************************)
(* Advanced-argument fallback: valid "key=value&" pairs, then an invalid   *)
(* key, in the three scanners that call parseAdvArgs                       *)
(***************************************************************************)
MaxPairs == 2

FallbackPrefixes ==
    {<<"*","*","c",":","a">>,
     <<"*","*">> \o ZapScriptCmdInputKeyboard \o <<":","a">>,
     <<"@","s","/","t">>}

\* a plain, a quoted, a JSON, an escaped and an expression value
FallbackValues ==
    {<<"v">>, <<"\"","x","\"">>, <<"{","}">>, <<"^","n">>, <<"[","[","e","]","]">>}

FallbackPairs == {<<"k","=">> \o v \o <<"&">> : v \in FallbackValues}

FallbackBadKeys == {<<"-">>, <<"k","-","=","z">>}

InitAdvFallback ==
    InitWith({pre \o <<"?">> \o ps \o bad :
                 <<pre, ps, bad>> \in
                     FallbackPrefixes \X Texts(FallbackPairs, 0, MaxPairs) \X FallbackBadKeys})

SpecAdvFallback == InitAdvFallback /\ [][Next]_vars

\* the text of the segment as a list of one-character arguments
CharArgs(t) == [i \in 1..Len(t) |-> <<t[i]>>]

\* the one command whose literal text is the text of the segment
VerbatimCmd(t) ==
    IF t[1] = SymMediaTitleStart
    THEN Cmd(ZapScriptCmdLaunchTitle, <<Tail(t)>>)
    ELSE IF t[3] = "c"
    THEN Cmd(<<"c">>, <<SubSeq(t, 5, Len(t))>>)
    ELSE Cmd(ZapScriptCmdInputKeyboard,
             CharArgs(SubSeq(t, Len(ZapScriptCmdInputKeyboard) + 4, Len(t))))

(***************************************************************************)
(* C5: the advanced-argument fallback loses no information.  When the      *)
(* scan after "?" meets an invalid key character, the literal text of the  *)
(* command (positional argument, per-character arguments or media-title    *)
(* content) equals the original text character for character, also when   *)
(* earlier pairs held a quoted, JSON, escaped or expression value.         *)
(***************************************************************************)
C5_FallbackVerbatim ==
    Parsed => /\ script.err = nil
              /\ script.Cmds = <<VerbatimCmd(input)>>

(***************************************************************************)
(* Invalid command names: "**", name characters, a character that is no    *)
(* name character, and the rest; and "*" followed by another character     *)
(***************************************************************************)
MaxNameLen == 2
MaxRestLen == 2

BadNameChars == {<<"@">>, <<"\"">>, <<"{">>, <<"-">>, <<"'">>}
AfterStar == {<<"a">>, <<"\"">>, <<"{">>, <<"@">>}
NameRests == Texts({<<"b">>, <<"\"">>, <<"{">>}, 0, MaxRestLen)

InitInvalidName ==
    InitWith({<<"*","*">> \o n \o bad \o rest :
                  <<n, bad, rest>> \in
                      Texts({<<"a">>, <<"B">>}, 0, MaxNameLen) \X BadNameChars \X NameRests}
             \cup {<<"*">> \o x \o rest : <<x, rest>> \in AfterStar \X NameRests})

SpecInvalidName == InitInvalidName /\ [][Next]_vars

(***************************************************************************)
(* C6: invalid command name fallback.  "**", name characters and a         *)
(* character that is neither a name character, ":", "?" nor a terminator   *)
(* become one launch command whose one argument is the whole text of the   *)
(* segment; "*" followed by a character other than "*" becomes a launch    *)
(* command whose argument begins with "*".                                 *)
(***************************************************************************)
C6_InvalidNameVerbatim ==
    Parsed =>
        /\ script.err = nil
        /\ IF input[2] = SymCmdStart
           THEN script.Cmds = <<Launch(input)>>
           ELSE /\ Len(script.Cmds) = 1
                /\ script.Cmds[1].Name = ZapScriptCmdLaunch
                /\ Len(script.Cmds[1].Args) = 1
                /\ script.Cmds[1].Args[1] # <<>>
                /\ script.Cmds[1].Args[1][1] = SymCmdStart

(***************************************************************************)
(* Helpers of the statements about arguments                               *)
(***************************************************************************)
\* the index of the first occurrence of ch in t, or 0
FirstOf(t, ch) ==
    IF \E i \in DOMAIN t : t[i] = ch
    THEN CHOOSE i \in DOMAIN t : t[i] = ch /\ \A j \in 1..(i - 1) : t[j] # ch
    ELSE 0

\* the pieces of t between the occurrences of sep
RECURSIVE SplitBy(_, _)
SplitBy(t, sep) ==
    IF FirstOf(t, sep) = 0 THEN <<t>>
    ELSE <<SubSeq(t, 1, FirstOf(t, sep) - 1)>>
         \o SplitBy(SubSeq(t, FirstOf(t, sep) + 1, Len(t)), sep)

TrimAll(ss) == [i \in DOMAIN ss |-> TrimSpace(ss[i])]

CountOf(t, ch) == Cardinality({i \in DOMAIN t : t[i] = ch})

\* the index of the chain terminator in t: the first "|" that is followed by
\* "|" or is the last character; Len(t) + 1 when there is none
TermAt(t) ==
    IF \E i \in DOMAIN t : t[i] = SymCmdSep /\ (i = Len(t) \/ t[i + 1] = SymCmdSep)
    THEN CHOOSE i \in DOMAIN t :
             /\ t[i] = SymCmdSep /\ (i = Len(t) \/ t[i + 1] = SymCmdSep)
             /\ \A j \in 1..(i - 1) :
                    ~(t[j] = SymCmdSep /\ (j = Len(t) \/ t[j + 1] = SymCmdSep))
    ELSE Len(t) + 1

\* the text of t before its chain terminator
Content(t) == SubSeq(t, 1, TermAt(t) - 1)

(***************************************************************************)
(* Positional arguments of "**c": no colon, or a colon and a content of    *)
(* letters, commas, spaces, "|" and expression brackets                    *)
(***************************************************************************)
MaxArgsLen == 4

ArgAtoms == {<<"a">>, <<",">>, <<" ">>, <<"|">>, <<"[","[">>, <<"]","]">>}

CmdC == <<"*","*","c">>

InitArgs ==
    InitWith({CmdC} \cup {CmdC \o <<":">> \o t : t \in Texts(ArgAtoms, 0, MaxArgsLen)})

SpecArgs == InitArgs /\ [][Next]_vars

\* the content after "**c:"
ArgContent == Content(SubSeq(input, Len(CmdC) + 2, Len(input)))

(***************************************************************************)
(* C7: positional argument count in generic mode.  "**cmd" without ":" has *)
(* no Args; "**cmd:" has Args = [""]; for a content without quotes, JSON,  *)
(* escapes or "?", the number of Args is the number of commas after the    *)
(* colon plus one, each value trimmed and in input order.                  *)
(***************************************************************************)
C7_ArgCount ==
    Succeeded =>
        IF input = CmdC THEN script.Cmds[1].Args = <<>>
        ELSE /\ Len(script.Cmds[1].Args) = CountOf(ArgContent, ",") + 1
             /\ script.Cmds[1].Args = TrimAll(script.Cmds[1].Args)

(***************************************************************************)
(* C7 as amended: the same, for a content that also holds no "[": an       *)
(* expression [[...]] is scanned as one token, and a comma inside it does  *)
(* not separate arguments.                                                 *)
(***************************************************************************)
C7_ArgCountNoExpression ==
    Parsed =>
        IF input = CmdC THEN script.err = nil /\ script.Cmds = <<Cmd(<<"c">>, <<>>)>>
        ELSE SymExpressionStart \notin Range(ArgContent) =>
                 /\ Len(script.Cmds) >= 1
                 /\ script.Cmds[1] = Cmd(<<"c">>, TrimAll(SplitBy(ArgContent, ",")))
                 /\ Len(script.Cmds[1].Args) = CountOf(ArgContent, ",") + 1

\* C7: a content with two commas and a space has given three trimmed values
C7_Witness ==
    /\ Parsed
    /\ input # CmdC
    /\ SymExpressionStart \notin Range(ArgContent)
    /\ CountOf(ArgContent, ",") = 2
    /\ " " \in Range(ArgContent)
    /\ Len(script.Cmds[1].Args) = 3
    /\ <<"a">> \in Range(script.Cmds[1].Args)

(***************************************************************************)
(* A single "|" inside a value: a command argument, an advanced-argument   *)
(* value, a media title, auto-launch content, an unquoted trait value      *)
(***************************************************************************)
MaxPipeLen == 4

\* texts of letters and "|" with a "|" that is neither first, doubled nor last
PipeTexts ==
    {t \in Texts({<<"a">>, <<"b">>, <<"|">>}, 1, MaxPipeLen) :
        SymCmdSep \in Range(t) /\ t[1] # SymCmdSep /\ TermAt(t) = Len(t) + 1}

PipePrefixes ==
    {<<>>, CmdC \o <<":">>, CmdC \o <<"?","k","=">>, <<"@","s","/">>}

InitPipe == InitWith({pre \o t : pre \in PipePrefixes, t \in PipeTexts})

SpecPipe == InitPipe /\ [][Next]_vars

\* the text after a prefix of n characters
After(n) == SubSeq(input, n + 1, Len(input))

(***************************************************************************)
(* C8: a single "|" is not a chain terminator.  When a "|" is followed by  *)
(* something other than "|" and is not the last character, it is kept as a *)
(* literal character of the value being scanned, in every scanning mode    *)
(* that checks for the terminator: the argument of a command, the value of *)
(* an advanced argument, a media title, auto-launch content, and an        *)
(* unquoted trait value, which is read whole with its "|".                 *)
(***************************************************************************)
C8_SinglePipeLiteral ==
    /\ Parsed =>
        /\ script.err = nil
        /\ script.Cmds =
            CASE input[1] = SymMediaTitleStart ->
                    <<Cmd(ZapScriptCmdLaunchTitle, <<After(1)>>)>>
              [] input[1] = SymCmdStart /\ input[4] = SymArgStart ->
                    <<Cmd(<<"c">>, <<After(4)>>)>>
              [] input[1] = SymCmdStart /\ input[4] = SymAdvArgStart ->
                    <<[Name |-> <<"c">>, Args |-> <<>>,
                       AdvArgs |-> NewAdvArgs(MapSet(EmptyMap, <<"k">>, After(6)))]>>
              [] OTHER -> <<Launch(input)>>
    /\ (phase = "value" /\ input \in PipeTexts) =>
        /\ traitValue.err = nil
        /\ traitValue.sr.pos = Len(input)
        /\ traitValue.raw = input
        /\ traitValue.val = StringValue(input)

(***************************************************************************)
(* Quotes and braces in a value: directly after ":", "," or "=", and at a  *)
(* later offset of a value                                                 *)
(***************************************************************************)
MaxValueLen == 3

QuoteTexts == Texts({<<"a">>, <<"\"">>, <<"'">>, <<"{">>, <<" ">>}, 1, MaxValueLen)

\* prefixes after which a value region starts
RegionPrefixes == {CmdC \o <<":">>, CmdC \o <<":","a",",">>, CmdC \o <<"?","k","=">>}

\* prefixes that are themselves the start of a launch argument
LaunchPrefixes == {<<"*">>, <<"*","*","a","@">>}

InitQuote ==
    InitWith({pre \o v : pre \in RegionPrefixes \cup LaunchPrefixes, v \in QuoteTexts})

SpecQuote == InitQuote /\ [][Next]_vars

\* the length of the prefix of the input
QuotePrefixLen ==
    CASE input[2] # SymCmdStart -> 1
      [] input[3] = "a" -> 4
      [] input[4] = SymAdvArgStart -> 6
      [] Len(input) >= 6 /\ input[6] = SymArgSep -> 6
      [] OTHER -> 4

QuoteValue == After(QuotePrefixLen)

\* the command that holds value v after the region prefix of the input
RegionCmd(v) ==
    CASE QuotePrefixLen = 4 -> Cmd(<<"c">>, <<v>>)
      [] input[4] = SymArgStart -> Cmd(<<"c">>, <<<<"a">>, v>>)
      [] OTHER -> [Name |-> <<"c">>, Args |-> <<>>,
                   AdvArgs |-> NewAdvArgs(MapSet(EmptyMap, <<"k">>, v))]

\* the index of the quote that closes the one at v[1], or 0
ClosingQuote(v) == FirstOf(Tail(v), v[1])

(***************************************************************************)
(* C9: for positional arguments and advanced-argument values, a quote or   *)
(* "{" starts a quoted or JSON literal if and only if it is the very first *)
(* character of the value region, directly after ":", "," or "=".  At any  *)
(* later offset, including after leading whitespace, it is literal         *)
(* content, is stored as such, and gives no ErrUnmatchedQuote and no       *)
(* ErrInvalidJSON.                                                         *)
(***************************************************************************)
C9_LiteralOnlyAtRegionStart ==
    Parsed =>
        IF input[2] # SymCmdStart \/ input[3] = "a"
        THEN \* the quotes are at a later offset of the launch argument
             script.err = nil /\ script.Cmds = <<Launch(TrimSpace(input))>>
        ELSE CASE QuoteValue[1] = SymJSONStart ->
                    script.Cmds = <<>> /\ script.err = ErrInvalidJSON
               [] QuoteValue[1] \in {SymArgDoubleQuote, SymArgSingleQuote}
                  /\ ClosingQuote(QuoteValue) = 0 ->
                    script.Cmds = <<>> /\ script.err = ErrUnmatchedQuote
               [] QuoteValue[1] \in {SymArgDoubleQuote, SymArgSingleQuote}
                  /\ ClosingQuote(QuoteValue) # 0 ->
                    /\ script.err = nil
                    /\ script.Cmds = <<RegionCmd(TrimSpace(
                         SubSeq(QuoteValue, 2, ClosingQuote(QuoteValue))
                         \o SubSeq(QuoteValue, ClosingQuote(QuoteValue) + 2,
                                   Len(QuoteValue))))>>
               [] OTHER ->
                    /\ script.err = nil
                    /\ script.Cmds = <<RegionCmd(TrimSpace(QuoteValue))>>

(***************************************************************************)
(* Advanced arguments of "**c" and "**c:a", with and without a following   *)
(* command                                                                 *)
(***************************************************************************)
MaxAdvLen == 4

AdvRegions == Texts({<<"k">>, <<"v">>, <<"=">>, <<"&">>, <<" ">>, <<",">>}, 0, MaxAdvLen)

CmdD == <<"*","*","d">>

InitAdv ==
    InitWith({pre \o <<"?">> \o r \o rest :
                pre \in {CmdC, CmdC \o <<":","a">>},
                r \in AdvRegions,
                rest \in {<<>>, <<"|","|">> \o CmdD}})

SpecAdv == InitAdv /\ [][Next]_vars

\* the text between the "?" and the chain terminator
AdvRegion ==
    Content(SubSeq(input, FirstOf(input, SymAdvArgStart) + 1, Len(input)))

\* the key and the value of one "&"-separated piece
PairKey(p) ==
    IF FirstOf(p, SymAdvArgEq) = 0 THEN p ELSE SubSeq(p, 1, FirstOf(p, SymAdvArgEq) - 1)
PairValue(p) ==
    IF FirstOf(p, SymAdvArgEq) = 0 THEN <<>>
    ELSE TrimSpace(SubSeq(p, FirstOf(p, SymAdvArgEq) + 1, Len(p)))

\* the map of the first n pieces, a later piece replacing an earlier one of
\* the same key, a piece without a key left out
RECURSIVE PairsMap(_, _)
PairsMap(ps, n) ==
    IF n = 0 THEN EmptyMap
    ELSE IF PairKey(ps[n]) = <<>> THEN PairsMap(ps, n - 1)
    ELSE MapSet(PairsMap(ps, n - 1), PairKey(ps[n]), PairValue(ps[n]))

AdvPieces == SplitBy(AdvRegion, SymAdvArgSep)

AdvMap == PairsMap(AdvPieces, Len(AdvPieces))

\* every key of the region is made of name characters
AllKeysValid ==
    \A i \in DOMAIN AdvPieces :
        \A j \in DOMAIN PairKey(AdvPieces[i]) : isAdvArgName(PairKey(AdvPieces[i])[j])

(***************************************************************************)
(* C10: advanced arguments are the final element of a command.  Once "?"   *)
(* opens a region in which every key is valid, all text up to the next     *)
(* chain terminator or the end of the input belongs to the advanced        *)
(* arguments: nothing after the "?" is added to Args, each "&"-separated   *)
(* key=value is stored with its value trimmed, a key without "=" is stored *)
(* with the empty string, and the next command starts only after the       *)
(* terminator.                                                             *)
(***************************************************************************)
C10_AdvArgsFinal ==
    (Parsed /\ AllKeysValid) =>
        /\ script.err = nil
        /\ script.Cmds =
             <<[Name |-> <<"c">>,
                Args |-> IF input[4] = SymArgStart THEN <<<<"a">>>> ELSE <<>>,
                AdvArgs |-> IF AdvMap = EmptyMap THEN NilAdvArgs
                            ELSE NewAdvArgs(AdvMap)]>>
             \o (IF input[Len(input)] = "d" THEN <<Cmd(<<"d">>, <<>>)>> ELSE <<>>)

\* C10: a region of two keys, one without "=", after an argument and before
\* a following command
C10_Witness ==
    /\ Parsed
    /\ AllKeysValid
    /\ Cardinality(AdvMap) = 2
    /\ \E i \in DOMAIN AdvPieces :
           PairKey(AdvPieces[i]) # <<>> /\ FirstOf(AdvPieces[i], SymAdvArgEq) = 0
    /\ Len(script.Cmds) = 2
    /\ script.Cmds[1].Args = <<<<"a">>>>
    /\ script.Cmds[1].AdvArgs = NewAdvArgs(AdvMap)

(***************************************************************************)
(* Escaped syntax characters in the places where escapes are decoded       *)
(***************************************************************************)
MaxEscAtoms == 2

\* a letter and the escaped forms of the characters with a meaning
EscAtoms ==
    {<<"a">>} \cup {<<"^", ch>> : ch \in {",", "?", "&", "|", "\"", "'", "["}}

EscTexts == Texts(EscAtoms, 1, MaxEscAtoms)

\* the same for an unquoted trait value
EscTraitTexts ==
    Texts({<<"a">>} \cup {<<"^", ch>> : ch \in {"#", " ", "|", "\""}}, 1, MaxEscAtoms)

\* "**c:t", "**c?k=t", "@s/t" and the quoted "**c:"t"", alone or before "||**d"
EscScripts ==
    {pre \o t \o rest :
        pre \in {CmdC \o <<":">>, CmdC \o <<"?","k","=">>, <<"@","s","/">>},
        t \in EscTexts, rest \in {<<>>, <<"|","|">> \o CmdD}}
    \cup {CmdC \o <<":","\"">> \o t \o <<"\"">> \o rest :
            t \in EscTexts, rest \in {<<>>, <<"|","|">> \o CmdD}}

InitEscape == InitWith(EscScripts \cup EscTraitTexts)

SpecEscape == InitEscape /\ [][Next]_vars

\* t with every caret dropped and the character after it kept
RECURSIVE Unescape(_)
Unescape(t) ==
    IF t = <<>> THEN <<>>
    ELSE IF Head(t) = SymEscapeSeq /\ Len(t) >= 2
    THEN <<t[2]>> \o Unescape(SubSeq(t, 3, Len(t)))
    ELSE <<Head(t)>> \o Unescape(Tail(t))

\* the script ends with "||**d"
EscChained == Len(input) >= 5 /\ SubSeq(input, Len(input) - 4, Len(input)) = <<"|","|">> \o CmdD

\* the input without that end
EscSegment == IF EscChained THEN SubSeq(input, 1, Len(input) - 5) ELSE input

EscQuoted == input[1] = SymCmdStart /\ input[4] = SymArgStart /\ input[5] = SymArgDoubleQuote

\* the escaped text of the segment, decoded
EscValue ==
    Unescape(CASE input[1] = SymMediaTitleStart -> SubSeq(EscSegment, 4, Len(EscSegment))
               [] EscQuoted -> SubSeq(EscSegment, 6, Len(EscSegment) - 1)
               [] input[4] = SymArgStart -> SubSeq(EscSegment, 5, Len(EscSegment))
               [] OTHER -> SubSeq(EscSegment, 7, Len(EscSegment)))

EscCmd ==
    CASE input[1] = SymMediaTitleStart ->
            Cmd(ZapScriptCmdLaunchTitle, <<<<"s","/">> \o EscValue>>)
      [] input[4] = SymArgStart -> Cmd(<<"c">>, <<EscValue>>)
      [] OTHER -> [Name |-> <<"c">>, Args |-> <<>>,
                   AdvArgs |-> NewAdvArgs(MapSet(EmptyMap, <<"k">>, EscValue))]

(***************************************************************************)
(* C11: an escaped character loses its special meaning and is emitted      *)
(* alone, the caret dropped.  "^," does not split positional arguments,    *)
(* "^?" does not start advanced arguments, "^&" does not end the value of  *)
(* an advanced argument, "^|" is not counted as part of a chain            *)
(* terminator, an escaped quote does not close a quoted literal, "^[" does *)
(* not open an expression, and "^#" or an escaped space does not end an    *)
(* unquoted trait value.                                                   *)
(***************************************************************************)
C11_EscapedIsLiteral ==
    /\ (Parsed /\ input \in EscScripts) =>
          /\ script.err = nil
          /\ script.Cmds =
               <<EscCmd>> \o (IF EscChained THEN <<Cmd(<<"d">>, <<>>)>> ELSE <<>>)
    /\ phase = "expressions" =>
          expressions.err = nil /\ expressions.val = Unescape(input)
    /\ (phase = "value" /\ input \in EscTraitTexts) =>
          /\ traitValue.err = nil
          /\ traitValue.sr.pos = Len(input)
          /\ traitValue.val = StringValue(Unescape(input))

\* C11: an argument that holds an escaped "|" right before the terminator
\* of its command has been parsed
C11_Witness ==
    /\ Parsed
    /\ input = CmdC \o <<":", "^", ",", "^", "|", "|", "|">> \o CmdD
    /\ script.Cmds = <<Cmd(<<"c">>, <<<<",", "|">>>>), Cmd(<<"d">>, <<>>)>>

(***************************************************************************)
(* A caret as the last character of the input                              *)
(***************************************************************************)
MaxCaretLen == 2

\* a positional argument, the value of an advanced argument, the content of
\* a media title, or bare text, each ending with a caret
CaretScripts ==
    {pre \o t \o <<SymEscapeSeq>> :
        pre \in {CmdC \o <<":">>, CmdC \o <<"?","k","=">>, <<"@","s","/","a">>, <<>>},
        t \in Texts({<<"a">>, <<"b">>, <<",">>}, 0, MaxCaretLen)}

InitCaret == InitWith(CaretScripts)

SpecCaret == InitCaret /\ [][Next]_vars

\* the text the last value of the first command ends with
CaretValue ==
    With(script.Cmds[1], LAMBDA cmd :
        IF cmd.AdvArgs.raw # {} THEN MapGet(cmd.AdvArgs.raw, <<"k">>)
        ELSE cmd.Args[Len(cmd.Args)])

EndsWithCaret(t) == t # <<>> /\ t[Len(t)] = SymEscapeSeq

(***************************************************************************)
(* C12: wherever escapes are decoded (positional arguments, values of      *)
(* advanced arguments, media-title content, unquoted trait values, and     *)
(* ParseExpressions), a caret that is the last character of the input is   *)
(* kept in the output as a literal caret, never dropped.                   *)
(***************************************************************************)
C12_TrailingCaretKept ==
    /\ Parsed => (script.err = nil /\ Len(script.Cmds) = 1 /\ EndsWithCaret(CaretValue))
    /\ phase = "value" =>
          (traitValue.err = nil /\ traitValue.val = StringValue(input))
    /\ phase = "expressions" =>
          (expressions.err = nil /\ expressions.val = input)

(***************************************************************************)
(* A single opening bracket                                                *)
(***************************************************************************)
MaxBracketLen == 3

HasDoubleBracket(t) ==
    \E i \in 1..(Len(t) - 1) : t[i] = SymExpressionStart /\ t[i + 1] = SymExpressionStart

\* texts of letters and single "[", never two "[" in a row
BracketTexts ==
    {t \in Texts({<<"a">>, <<SymExpressionStart>>}, 1, MaxBracketLen) : ~HasDoubleBracket(t)}

\* bare text, "**c:t", "**c?k=t" and the quoted "**c:"t""
BracketScripts ==
    {pre \o t : pre \in {<<>>, CmdC \o <<":">>, CmdC \o <<"?","k","=">>}, t \in BracketTexts}
    \cup {CmdC \o <<":","\"">> \o t \o <<"\"">> : t \in BracketTexts}

InitBracket == InitWith(BracketScripts)

SpecBracket == InitBracket /\ [][Next]_vars

BracketCmd ==
    CASE input[1] # SymCmdStart -> Launch(input)
      [] input[4] = SymAdvArgStart ->
            [Name |-> <<"c">>, Args |-> <<>>,
             AdvArgs |-> NewAdvArgs(MapSet(EmptyMap, <<"k">>, SubSeq(input, 7, Len(input))))]
      [] input[5] = SymArgDoubleQuote ->
            Cmd(<<"c">>, <<SubSeq(input, 6, Len(input) - 1)>>)
      [] OTHER -> Cmd(<<"c">>, <<SubSeq(input, 5, Len(input))>>)

(***************************************************************************)
(* C13: wherever expressions are tokenized (ParseExpressions, positional   *)
(* arguments, values of advanced arguments, quoted literals) a single "["  *)
(* that is not followed by another "[" is emitted as a literal "[" and is  *)
(* never an error, whether a character or the end of the input follows it. *)
(***************************************************************************)
C13_SingleBracketLiteral ==
    /\ Parsed => (script.err = nil /\ script.Cmds = <<BracketCmd>>)
    /\ phase = "expressions" => (expressions.err = nil /\ expressions.val = input)

(***************************************************************************)
(* The extent and the content of an expression                             *)
(***************************************************************************)
MaxExprAtoms == 4

ExprTexts ==
    {t \in Texts({<<"a">>, <<"[">>, <<"]">>, <<"[","[">>, <<"]","]">>, <<"^">>},
                 1, MaxExprAtoms) :
        t[Len(t)] \notin {SymEscapeSeq, SymExpressionStart}}

\* the text alone, and as the argument of "**c:"
ExprScripts == ExprTexts \cup {CmdC \o <<":">> \o t : t \in ExprTexts}

InitExpr == InitWith(ExprScripts)

SpecExpr == InitExpr /\ [][Next]_vars

\* where the expression that opens t closes: the first "]" after the "[["
\* that has a "]" right after it (0 when there is none)
ExprEnd(t) ==
    IF \E i \in 3..(Len(t) - 1) : t[i] = SymExpressionEnd /\ t[i + 1] = SymExpressionEnd
    THEN CHOOSE i \in 3..(Len(t) - 1) :
            /\ t[i] = SymExpressionEnd /\ t[i + 1] = SymExpressionEnd
            /\ \A j \in 3..(i - 1) : ~(t[j] = SymExpressionEnd /\ t[j + 1] = SymExpressionEnd)
    ELSE 0

\* the tokenization the claim describes: each "[[" span up to its end is
\* copied raw between one start and one end marker, an escape outside a
\* span is decoded, everything else is copied
RECURSIVE ExprTokens(_)
ExprTokens(t) ==
    IF t = <<>> THEN [ok |-> TRUE, val |-> <<>>]
    ELSE IF Len(t) >= 2 /\ t[1] = SymExpressionStart /\ t[2] = SymExpressionStart
    THEN IF ExprEnd(t) = 0 THEN [ok |-> FALSE, val |-> <<>>]
         ELSE With(ExprTokens(SubSeq(t, ExprEnd(t) + 2, Len(t))), LAMBDA rest :
              [ok |-> rest.ok,
               val |-> <<TokExpStart>> \o SubSeq(t, 3, ExprEnd(t) - 1)
                          \o <<TokExprEnd>> \o rest.val])
    ELSE IF Len(t) >= 2 /\ t[1] = SymEscapeSeq
    THEN With(ExprTokens(SubSeq(t, 3, Len(t))), LAMBDA rest :
         [ok |-> rest.ok, val |-> <<t[2]>> \o rest.val])
    ELSE With(ExprTokens(Tail(t)), LAMBDA rest :
         [ok |-> rest.ok, val |-> <<t[1]>> \o rest.val])

ExprBare == input[1] # SymCmdStart

(***************************************************************************)
(* C14: after "[[" the expression ends at the first "]" whose next         *)
(* character is "]".  Its content is copied raw (no escape decoding, a     *)
(* single "]" or "[" is ordinary content) between exactly one start marker *)
(* and one end marker, the text after "]]" is scanned as ordinary text     *)
(* again, and several spans in one value are tokenized one after another   *)
(* in order.                                                               *)
(***************************************************************************)
C14_ExpressionExtent ==
    /\ phase = "expressions" =>
          IF ExprTokens(input).ok
          THEN expressions.err = nil /\ expressions.val = ExprTokens(input).val
          ELSE expressions.err = ErrUnmatchedExpression
    /\ Parsed =>
          With(ExprTokens(IF ExprBare THEN input ELSE SubSeq(input, 5, Len(input))),
               LAMBDA e :
               IF e.ok
               THEN /\ script.err = nil
                    /\ script.Cmds = <<IF ExprBare THEN Launch(e.val)
                                       ELSE Cmd(<<"c">>, <<e.val>>)>>
               ELSE script.err = ErrUnmatchedExpression)

\* C14: "[[[]]]" was tokenized: the content is the single "[", the last "]"
\* is ordinary text after the span
C14_Witness ==
    /\ phase = "expressions"
    /\ input = <<"[","[","[","]","]","]">>
    /\ expressions.val = <<TokExpStart, "[", TokExprEnd, "]">>

\* C14: two spans in one argument were tokenized one after the other
C14_WitnessTwoSpans ==
    /\ Parsed
    /\ input = CmdC \o <<":","[","[","]","]","[","[","]","]">>
    /\ script.Cmds = <<Cmd(<<"c">>, <<<<TokExpStart, TokExprEnd, TokExpStart, TokExprEnd>>>>)>>

(***************************************************************************)
(* Tokenized text handed to EvalExpressions                                *)
(***************************************************************************)
MaxEvalAtoms == 3

\* plain text, the raw pieces "[[" and "]]", and whole expressions: one for
\* each type of result, one of a type that is not supported, an empty one
EvalAtoms ==
    {<<"x">>, <<"[","[">>, <<"]","]">>, <<"[","[","]","]">>}
    \cup {<<"[","[",ch,"]","]">> : ch \in {"a", "b", "c", "d", "e"}}

InitEval == InitWith(Texts(EvalAtoms, 1, MaxEvalAtoms))

SpecEval == InitEval /\ [][Next]_vars

HasMarker(t) == \E i \in 1..Len(t) : t[i] \in {TokExpStart, TokExprEnd}

\* every start marker is closed by an end marker before the next start
\* marker, and no end marker stands alone
RECURSIVE MarkersBalanced(_, _)
MarkersBalanced(t, open) ==
    IF t = <<>> THEN ~open
    ELSE IF Head(t) = TokExpStart THEN ~open /\ MarkersBalanced(Tail(t), TRUE)
    ELSE IF Head(t) = TokExprEnd THEN open /\ MarkersBalanced(Tail(t), FALSE)
    ELSE MarkersBalanced(Tail(t), open)

\* the position of the first end marker of t
FirstExprEnd(t) ==
    CHOOSE i \in 1..Len(t) :
        t[i] = TokExprEnd /\ \A j \in 1..(i - 1) : t[j] # TokExprEnd

\* the result of the expression that opens t, formatted
SpanResult(t, exprEnv) ==
    With(exprEval(SubSeq(t, 2, FirstExprEnd(t) - 1), exprEnv), LAMBDA o :
        IF o.err # nil THEN [val |-> <<>>, err |-> o.err] ELSE formatOutput(o))

\* balanced text with the formatted result of each expression in its place
RECURSIVE Substituted(_, _)
Substituted(t, exprEnv) ==
    IF t = <<>> THEN [ok |-> TRUE, val |-> <<>>]
    ELSE IF Head(t) = TokExpStart
    THEN With(Substituted(SubSeq(t, FirstExprEnd(t) + 1, Len(t)), exprEnv), LAMBDA rest :
         [ok |-> rest.ok /\ SpanResult(t, exprEnv).err = nil,
          val |-> SpanResult(t, exprEnv).val \o rest.val])
    ELSE With(Substituted(Tail(t), exprEnv), LAMBDA rest :
         [ok |-> rest.ok, val |-> <<Head(t)>> \o rest.val])

(***************************************************************************)
(* C15: when ParseExpressions succeeds on input without markers, the       *)
(* markers of its output are balanced and never nested, so EvalExpressions *)
(* on that output never fails with ErrUnmatchedExpression.                 *)
(* EvalExpressions returns the string parts unchanged and in order, with   *)
(* the formatted result of each expression in its place; text without      *)
(* markers is returned unchanged and nothing is evaluated.                 *)
(***************************************************************************)
C15_EvalTokenized ==
    /\ (phase = "expressions" /\ expressions.err = nil) =>
          MarkersBalanced(expressions.val, FALSE)
    /\ phase = "evaluated" =>
          /\ evaluated.err # ErrUnmatchedExpression
          /\ ~HasMarker(evaluated.text) =>
                (evaluated.err = nil /\ evaluated.val = evaluated.text)
          /\ IF Substituted(evaluated.text, evaluated.exprEnv).ok
             THEN /\ evaluated.err = nil
                  /\ evaluated.val = Substituted(evaluated.text, evaluated.exprEnv).val
             ELSE evaluated.err \in {errEvalExpression, ErrBadExpressionReturn}

\* C15: the tokenized "x[[a]]x" was evaluated: both string parts are kept
\* around the result of the expression
C15_Witness ==
    /\ phase = "evaluated"
    /\ evaluated.text = <<"x", TokExpStart, "a", TokExprEnd, "x">>
    /\ evaluated.err = nil
    /\ evaluated.val = <<"x", "<", "a", ">", "x">>

(***************************************************************************)
(* Constructs left open at the end of the input                            *)
(***************************************************************************)
MaxOpenLen == 3

\* an opened quote: as a positional argument, as the value of an advanced
\* argument, and as bare text (also a quoted trait value)
OpenQuotes ==
    {pre \o t :
        pre \in {CmdC \o <<":","\"">>, CmdC \o <<":","'">>,
                 CmdC \o <<"?","k","=","\"">>, <<"\"">>},
        t \in Texts({<<"a">>, <<"[">>, <<",">>}, 0, MaxOpenLen)}

\* a JSON value whose braces never balance
OpenJSON ==
    {CmdC \o <<":","{">> \o t : t \in Texts({<<"a">>, <<"{">>, <<"[">>}, 0, MaxOpenLen)}

\* an expression without its "]]"
OpenExpressions ==
    {pre \o <<"[","[">> \o t :
        pre \in {CmdC \o <<":">>, CmdC \o <<"?","k","=">>},
        t \in Texts({<<"a">>, <<"[">>, <<"\"">>, <<"]","a">>}, 0, MaxOpenLen)}

\* an extended input macro without its "}"
OpenMacros ==
    {<<"*","*">> \o ZapScriptCmdInputKeyboard \o <<":","{">> \o t :
        t \in Texts({<<"a">>, <<",">>}, 0, MaxOpenLen)}

\* a trait array without its "]"
OpenArrays == {<<"[">> \o t : t \in Texts({<<"a">>, <<",">>}, 0, MaxOpenLen)}

\* a trait array with a quoted element that is not closed
OpenArrayQuotes ==
    {<<"[">> \o els \o <<"\"">> \o t :
        els \in {<<>>, <<"a", ",">>},
        t \in Texts({<<"a">>, <<",">>, <<"]">>}, 0, MaxOpenLen - 1)}

InitOpen ==
    InitWith(OpenQuotes \cup OpenJSON \cup OpenExpressions \cup OpenMacros
                \cup OpenArrays \cup OpenArrayQuotes)

SpecOpen == InitOpen /\ [][Next]_vars

(***************************************************************************)
(* C16: each construct left open at the end of the input fails with its    *)
(* own named error and no other: an opened quote with ErrUnmatchedQuote, a *)
(* "{" value whose braces never balance with ErrInvalidJSON, "[[" without  *)
(* "]]" with ErrUnmatchedExpression, a trait array without "]" with        *)
(* ErrUnmatchedArrayBracket, the "{" of an input macro without "}" with    *)
(* ErrUnmatchedInputMacroExt; of nested constructs the innermost open one  *)
(* gives the error.                                                        *)
(***************************************************************************)
C16_OpenConstructErrors ==
    /\ (Parsed /\ input \in OpenQuotes) =>
          script.err = IF HasDoubleBracket(input) THEN ErrUnmatchedExpression
                       ELSE ErrUnmatchedQuote
    /\ (Parsed /\ input \in OpenJSON) => script.err = ErrInvalidJSON
    /\ (Parsed /\ input \in OpenExpressions) => script.err = ErrUnmatchedExpression
    /\ (Parsed /\ input \in OpenMacros) => script.err = ErrUnmatchedInputMacroExt
    /\ (phase = "value" /\ input \in OpenArrays) =>
          traitValue.err = ErrUnmatchedArrayBracket
    /\ (phase = "value" /\ input \in OpenArrayQuotes) =>
          traitValue.err = ErrUnmatchedQuote
    /\ (phase = "value" /\ input[1] = SymArgDoubleQuote) =>
          traitValue.err = ErrUnmatchedQuote

(***************************************************************************)
(* An extended macro of an input command and the chain terminator          *)
(***************************************************************************)
MaxMacroLen == 2

KeyboardCmd == <<"*","*">> \o ZapScriptCmdInputKeyboard \o <<":">>

MacroPres == {<<>>, <<"a">>}

MacroNames == Texts({<<"a">>, <<",">>}, 0, MaxMacroLen)

\* what follows the macro: nothing, a second command, or a second command
\* with a "}" after it
MacroRests == {<<>>, <<"|","|">> \o CmdD, <<"|","|">> \o CmdD \o <<"}">>}

MacroScript(pre, name, close, rest) ==
    KeyboardCmd \o pre \o <<SymInputMacroExtStart>> \o name \o close \o rest

InitMacro ==
    InitWith({MacroScript(pre, name, close, rest) :
                pre \in MacroPres, name \in MacroNames,
                close \in {<<>>, <<SymInputMacroExtEnd>>}, rest \in MacroRests})

SpecMacro == InitMacro /\ [][Next]_vars

\* the commands of the segment after the terminator
MacroRestCmds(rest) ==
    IF rest = <<>> THEN <<>>
    ELSE IF rest = <<"|","|">> \o CmdD THEN <<Cmd(<<"d">>, <<>>)>>
    ELSE <<Launch(CmdD \o <<"}">>)>>

(***************************************************************************)
(* C17: in an input command a "{" opens an extended macro that is captured *)
(* whole, braces included, up to its matching "}".  When the "}" is        *)
(* missing before the end of the input or before the next chain terminator *)
(* "||", parsing fails with ErrUnmatchedInputMacroExt: an extended macro   *)
(* never spans a chain terminator into the next command.                   *)
(***************************************************************************)
C17_MacroWithinSegment ==
    Parsed =>
        \A pre \in MacroPres, name \in MacroNames, rest \in MacroRests :
            /\ input = MacroScript(pre, name, <<SymInputMacroExtEnd>>, rest) =>
                  /\ script.err = nil
                  /\ script.Cmds =
                       <<Cmd(ZapScriptCmdInputKeyboard,
                             CharArgs(pre) \o
                             <<<<SymInputMacroExtStart>> \o name \o <<SymInputMacroExtEnd>>>>)>>
                       \o MacroRestCmds(rest)
            /\ input = MacroScript(pre, name, <<>>, rest) =>
                  script.err = ErrUnmatchedInputMacroExt

(***************************************************************************)
(* Type inference of trait values                                          *)
(***************************************************************************)
MaxInferAtoms == 3

\* the largest int64, the next integer, the smallest int64 and the one
\* before it
InferEdges ==
    {<<"9","2","2","3","3","7","2","0","3","6","8","5","4","7","7","5","8","0","7">>,
     <<"9","2","2","3","3","7","2","0","3","6","8","5","4","7","7","5","8","0","8">>,
     <<"-","9","2","2","3","3","7","2","0","3","6","8","5","4","7","7","5","8","0","8">>,
     <<"-","9","2","2","3","3","7","2","0","3","6","8","5","4","7","7","5","8","0","9">>}

InferTexts ==
    Texts({<<"t","r","u","e">>, <<"f","a","l","s","e">>, <<"1">>, <<"0">>,
           <<"-">>, <<".">>, <<"a">>}, 0, MaxInferAtoms)
    \cup InferEdges

\* the text as an unquoted value, as a quoted value, as the element of an
\* array, as the value of the trait "#k=", and the trait "#k" without value
InferScripts ==
    InferTexts
    \cup {<<"\"">> \o t \o <<"\"">> : t \in InferTexts}
    \cup {<<SymArrayStart>> \o t \o <<SymArrayEnd>> : t \in InferTexts}
    \cup {<<SymTraitsStart, "k", "=">> \o t : t \in InferTexts}
    \cup {<<SymTraitsStart, "k">>}

InitInfer == InitWith(InferScripts)

SpecInfer == InitInfer /\ [][Next]_vars

\* t without its sign
Unsigned(t) == IF t # <<>> /\ t[1] = "-" THEN Tail(t) ELSE t

RECURSIVE NoLeadingZeros(_)
NoLeadingZeros(ds) ==
    IF Len(ds) > 1 /\ Head(ds) = "0" THEN NoLeadingZeros(Tail(ds)) ELSE ds

\* an optional "-" and decimal digits, in the range of an int64 (of the
\* texts here only two edges are out of it)
IsInt64Text(t) ==
    /\ Unsigned(t) # <<>>
    /\ \A i \in DOMAIN Unsigned(t) : Unsigned(t)[i] \in Digit
    /\ t \notin {<<"9","2","2","3","3","7","2","0","3","6","8","5","4","7","7","5","8","0","8">>,
                 <<"-","9","2","2","3","3","7","2","0","3","6","8","5","4","7","7","5","8","0","9">>}

\* an optional "-", digits and at most one ".", at least one digit
IsFloatText(t) ==
    /\ \E i \in DOMAIN Unsigned(t) : Unsigned(t)[i] \in Digit
    /\ \A i \in DOMAIN Unsigned(t) : Unsigned(t)[i] \in Digit \cup {"."}
    /\ Cardinality({i \in DOMAIN Unsigned(t) : Unsigned(t)[i] = "."}) <= 1

\* the typed value the claim gives an unquoted text
Inferred(t) ==
    IF t = <<"t","r","u","e">> THEN BoolValue(TRUE)
    ELSE IF t = <<"f","a","l","s","e">> THEN BoolValue(FALSE)
    ELSE IF IsInt64Text(t)
    THEN IntValue(t[1] = "-" /\ NoLeadingZeros(Unsigned(t)) # <<"0">>,
                  NoLeadingZeros(Unsigned(t)))
    ELSE IF IsFloatText(t) THEN FloatValue(t)
    ELSE StringValue(t)

InferBody == SubSeq(input, 2, Len(input) - 1)

C18_WitnessRange ==
    /\ phase = "value"
    /\ input = <<"9","2","2","3","3","7","2","0","3","6","8","5","4","7","7","5","8","0","8">>
    /\ traitValue.val.type = "float64"

(***************************************************************************)
(* Chains of trait segments and other segments                             *)
(***************************************************************************)
MaxChainSegs == 3

\* trait segments: one key, the same key in capitals, a key without value,
\* the same key twice in one segment, a quoted value
TraitSegs ==
    {<<"#","a","=","1">>, <<"#","A","=","2">>, <<"#","b">>,
     <<"#","a","=","x"," ","#","a","=","y">>, <<"#","B","=","\"","1","\"">>}

\* other segments: an explicit command, a media title, an auto-launch text
OtherSegs == {<<"*","*","c",":","x">>, <<"@","s","/","t">>, <<"y">>}

RECURSIVE JoinChain(_)
JoinChain(segs) ==
    IF Len(segs) = 1 THEN segs[1]
    ELSE segs[1] \o <<SymCmdSep, SymCmdSep>> \o JoinChain(Tail(segs))

InitTraits ==
    InitWith({JoinChain(segs) :
                segs \in UNION {[1..n -> TraitSegs \cup OtherSegs] : n \in 1..MaxChainSegs}})

SpecTraits == InitTraits /\ [][Next]_vars

\* the segments of t: the texts between its chain terminators
RECURSIVE SplitChain(_, _)
SplitChain(t, seg) ==
    IF t = <<>> THEN <<seg>>
    ELSE IF Len(t) >= 2 /\ t[1] = SymCmdSep /\ t[2] = SymCmdSep
    THEN <<seg>> \o SplitChain(SubSeq(t, 3, Len(t)), <<>>)
    ELSE SplitChain(Tail(t), Append(seg, Head(t)))

\* the traits a trait segment stands for: keys in lower case, the later of
\* two values of a key
SegTraits(seg) ==
    CASE seg = <<"#","a","=","1">> -> {<<<<"a">>, IntValue(FALSE, <<"1">>)>>}
      [] seg = <<"#","A","=","2">> -> {<<<<"a">>, IntValue(FALSE, <<"2">>)>>}
      [] seg = <<"#","b">> -> {<<<<"b">>, BoolValue(TRUE)>>}
      [] seg = <<"#","a","=","x"," ","#","a","=","y">> -> {<<<<"a">>, StringValue(<<"y">>)>>}
      [] seg = <<"#","B","=","\"","1","\"">> -> {<<<<"b">>, StringValue(<<"1">>)>>}
      [] OTHER -> {}

\* the traits of the segments in chain order, a later value replacing an
\* earlier one of the same key
RECURSIVE ChainTraits(_, _)
ChainTraits(segs, acc) ==
    IF segs = <<>> THEN acc
    ELSE ChainTraits(Tail(segs),
            {e \in acc : e[1] \notin {n[1] : n \in SegTraits(Head(segs))}}
                \cup SegTraits(Head(segs)))

\* the commands of the segments that are not trait segments, each parsed
\* on its own
RECURSIVE ChainCmds(_)
ChainCmds(segs) ==
    IF segs = <<>> THEN <<>>
    ELSE (IF Head(segs) \in TraitSegs THEN <<>> ELSE ParseScript(Head(segs)).Cmds)
            \o ChainCmds(Tail(segs))

MaxDropSegs == 3

\* a key that starts with a digit or with "-", and a key followed by "-"
\* or "."
InvalidKeySegs ==
    {<<"#","1","=","x">>, <<"#","-">>, <<"#","a","-","b","=","x">>, <<"#","a",".","b">>}

\* a valid trait segment, an explicit command, a media title
DropOtherSegs == {<<"#","a","=","1">>, <<"*","*","c",":","x">>, <<"@","s","/","t">>}

InitDrop ==
    InitWith({JoinChain(segs) :
                segs \in UNION {[1..n -> InvalidKeySegs \cup DropOtherSegs] :
                                    n \in 1..MaxDropSegs}})

SpecDrop == InitDrop /\ [][Next]_vars

DropSegs == SplitChain(input, <<>>)

\* the segments of the input without those that have an invalid key
RECURSIVE WithoutInvalid(_)
WithoutInvalid(segs) ==
    IF segs = <<>> THEN <<>>
    ELSE (IF Head(segs) \in InvalidKeySegs THEN <<>> ELSE <<Head(segs)>>)
            \o WithoutInvalid(Tail(segs))

\* the script has a segment with an invalid key and a segment that yields a
\* command
DropCase ==
    /\ \E i \in DOMAIN DropSegs : DropSegs[i] \in InvalidKeySegs
    /\ \E i \in DOMAIN DropSegs : DropSegs[i] \in DropOtherSegs /\ DropSegs[i][1] # SymTraitsStart

MaxKeyLen == 4

\* letters, a digit, the characters that end a key, and two that are
\* neither key characters nor ends of a key
KeyAtoms ==
    {<<"a">>, <<"B">>, <<"1">>, <<"-">>, <<".">>, <<"=">>, <<" ">>, <<"|">>, <<"#">>}

\* t has a chain terminator with text after it
HasInnerTerminator(t) ==
    \E i \in 1..(Len(t) - 2) : t[i] = SymCmdSep /\ t[i + 1] = SymCmdSep

InitKey ==
    InitWith({<<SymTraitsStart>> \o body :
                body \in {b \in Texts(KeyAtoms, 1, MaxKeyLen) : ~HasInnerTerminator(b)}})

SpecKey == InitKey /\ [][Next]_vars

\* the text after the "#"
KeyBody == Tail(input)

\* the index of the first character of body that is no key character
KeyEnd(body) ==
    IF \A i \in DOMAIN body : isAdvArgName(body[i]) THEN Len(body) + 1
    ELSE CHOOSE i \in DOMAIN body :
            /\ ~isAdvArgName(body[i])
            /\ \A j \in 1..(i - 1) : isAdvArgName(body[j])

\* the first key of body is invalid: it does not start with a letter, or
\* the character after it is none of "=", "|", "#" or whitespace
InvalidFirstKey(body) ==
    /\ body # <<>>
    /\ \/ body[1] \notin Lower \cup Upper
       \/ /\ KeyEnd(body) <= Len(body)
          /\ body[KeyEnd(body)] \notin {"=", "|", "#", " "}

C21_WitnessSpace ==
    /\ Parsed
    /\ input = <<"#", " ">>
    /\ script.err = ErrInvalidTraitKey

(***************************************************************************)
(* Scripts without commands: nothing at all, traits only, traits and       *)
(* commands                                                                *)
(***************************************************************************)
MaxRuleSegs == 3

\* inputs with no segment that yields anything: whitespace only, or a
\* "#" with nothing after it
EmptyInputs ==
    Texts({<<" ">>, <<TAB>>, <<LF>>}, 0, 2)
        \cup {t \o <<SymTraitsStart>> : t \in Texts({<<" ">>}, 0, 1)}

\* trait shorthand segments
RuleShortSegs == {<<"#","a","=","1">>, <<"#","b">>}

\* traits commands: one member, and two members of which one is an object
RuleFullSegs ==
    {<<"*","*","t","r","a","i","t","s",":","{","\"","a","\"",":","2","}">>,
     <<"*","*","t","r","a","i","t","s",":",
       "{","\"","c","\"",":","{","\"","x","\"",":","1","}",",",
           "\"","b","\"",":","\"","y","\"","}">>}

\* segments that yield a command
RuleCmdSegs == {<<"*","*","c",":","x">>, <<"y">>}

RuleSegs == RuleShortSegs \cup RuleFullSegs \cup RuleCmdSegs

InitRule ==
    InitWith(EmptyInputs
        \cup {pre \o JoinChain(segs) :
                pre \in {<<>>, <<" ">>},
                segs \in UNION {[1..n -> RuleSegs] : n \in 1..MaxRuleSegs}})

SpecRule == InitRule /\ [][Next]_vars

\* the segments of the input, without the whitespace before the first
RuleInputSegs == SplitChain(TrimLeft(input), <<>>)

\* the traits a segment contributes; the values of a traits command are
\* decoded JSON values
RuleSegTraits(seg) ==
    CASE seg = <<"#","a","=","1">> -> {<<<<"a">>, IntValue(FALSE, <<"1">>)>>}
      [] seg = <<"#","b">> -> {<<<<"b">>, BoolValue(TRUE)>>}
      [] seg \in RuleFullSegs /\ Len(seg) = 16 -> {<<<<"a">>, JSONValue(<<"2">>)>>}
      [] seg \in RuleFullSegs /\ Len(seg) > 16 ->
            {<<<<"c">>, JSONValue(<<"{","\"","x","\"",":","1","}">>)>>,
             <<<<"b">>, JSONValue(<<"\"","y","\"">>)>>}
      [] OTHER -> {}

\* the traits of the segments merged in chain order
RECURSIVE RuleTraits(_, _)
RuleTraits(segs, acc) ==
    IF segs = <<>> THEN acc
    ELSE RuleTraits(Tail(segs),
            {e \in acc : e[1] \notin {n[1] : n \in RuleSegTraits(Head(segs))}}
                \cup RuleSegTraits(Head(segs)))

\* the commands of the segments that yield a command, each parsed on its own
RECURSIVE RuleCmds(_)
RuleCmds(segs) ==
    IF segs = <<>> THEN <<>>
    ELSE (IF Head(segs) \in RuleCmdSegs THEN ParseScript(Head(segs)).Cmds ELSE <<>>)
            \o RuleCmds(Tail(segs))

C22_WitnessEmpty ==
    /\ Parsed
    /\ input = <<" ", LF>>
    /\ script.err = ErrEmptyZapScript

(***************************************************************************)
(* Expressions in trait values                                             *)
(***************************************************************************)
MaxTraitExprAtoms == 3

\* texts of a letter, "[[" and "]]"
TraitExprTexts ==
    Texts({<<"x">>, <<SymExpressionStart, SymExpressionStart>>,
           <<SymExpressionEnd, SymExpressionEnd>>}, 1, MaxTraitExprAtoms)

\* trait values: unquoted after a first letter, and quoted
TraitExprValues ==
    {<<"a">> \o t : t \in TraitExprTexts}
        \cup {<<SymArgDoubleQuote>> \o t \o <<SymArgDoubleQuote>> : t \in TraitExprTexts}

InitTraitExpr == InitWith(TraitExprValues)

SpecTraitExpr == InitTraitExpr /\ [][Next]_vars

\* the text of the value without its quotes
TraitExprBody ==
    IF input[1] = SymArgDoubleQuote THEN SubSeq(input, 2, Len(input) - 1) ELSE input

(***************************************************************************)
(* C23: expressions are tokenized in trait values as in other literal      *)
(* text: the stored string of an unquoted or quoted trait value is what    *)
(* ParseExpressions makes of its text, each "[[expr]]" replaced by the     *)
(* expression between U+E000 and U+E001, and a "[[" that is not closed     *)
(* fails with ErrUnmatchedExpression.                                      *)
(***************************************************************************)
C23_TraitValueTokenized ==
    phase = "value" =>
        With(ParseExpressions(TraitExprBody), LAMBDA e :
            /\ traitValue.err = e.err
            /\ e.err = nil => traitValue.val = StringValue(e.val)
            /\ e.err # nil => e.err = ErrUnmatchedExpression)

(***************************************************************************)
(* AdvArgs containers.  A Go map is a reference: maps[r] is the content of *)
(* the map at address r, and address 0 is the nil map.  A container is the *)
(* struct AdvArgs{raw}: the address of its map.                            *)
(***************************************************************************)
NilMap == 0

\* the content of the map at address r; ranging over the nil map or
\* indexing it finds nothing
Deref(heap, r) == IF r = NilMap THEN EmptyMap ELSE heap[r]

\* NewAdvArgs(m): the container holds the map it was given, not a copy
NewAdvArgsOf(r) == [raw |-> r]

\* a.Get(key): the value, or the empty string
AdvArgsGet(heap, a, key) == MapGet(Deref(heap, a.raw), key)

\* a.Raw(): the map of the container itself
AdvArgsRaw(a) == a.raw

\* a faulty With: the entry is written into the map of the receiver when it
\* has one, and the receiver's map is returned
AdvArgsWithInPlace(heap, a, key, value) ==
    IF a.raw = NilMap
    THEN [maps |-> Append(heap, MapSet(EmptyMap, key, value)),
          ret |-> [raw |-> Len(heap) + 1]]
    ELSE [maps |-> [heap EXCEPT ![a.raw] = MapSet(@, key, value)],
          ret |-> [raw |-> a.raw]]

\* a.With(key, value): a new map is made, the entries of the receiver are
\* copied into it, the entry is set, and a container of the new map returned
AdvArgsWith(heap, a, key, value) ==
    [maps |-> Append(heap, MapSet(Deref(heap, a.raw), key, value)),
     ret |-> [raw |-> Len(heap) + 1]]

MaxAdvs == 4

AdvKeys == {<<"k">>, <<"w","h","e","n">>}
AdvValues == {<<"x">>, <<"y">>}

\* the maps a container is built from: none (nil), an empty one, one entry
AdvSourceMaps == {EmptyMap, {<<<<"k">>, <<"x">>>>}}

\* a := NewAdvArgs(nil), or a := NewAdvArgs(m) for a map m of the caller
InitAdvArgs ==
    /\ input = <<>>
    /\ phase = "advargs"
    /\ script = NoScript
    /\ traitValue = NoValue
    /\ expressions = NoExpressions
    /\ evaluated = NoEvaluated
    /\ \/ maps = <<>> /\ advs = <<NewAdvArgsOf(NilMap)>>
       \/ \E m \in AdvSourceMaps : maps = <<m>> /\ advs = <<NewAdvArgsOf(1)>>

\* b := advs[i].With(key, value) for a container made so far
CallAdvArgsWith ==
    /\ phase = "advargs"
    /\ Len(advs) < MaxAdvs
    /\ \E i \in DOMAIN advs, key \in AdvKeys, value \in AdvValues :
          With(AdvArgsWith(maps, advs[i], key, value), LAMBDA w :
              /\ maps' = w.maps
              /\ advs' = Append(advs, w.ret))
    /\ UNCHANGED <<input, phase, script, traitValue, expressions, evaluated>>

NextAdvArgs == CallAdvArgsWith

SpecAdvArgs == InitAdvArgs /\ [][NextAdvArgs]_vars

\* the entries container a has when the maps are heap
AdvEntries(heap, a) == Deref(heap, a.raw)

(***************************************************************************)
(* C24: AdvArgs is copy-on-write.  A call b := a.With(k, v) on any         *)
(* container, also one built from a nil map, leaves every container made   *)
(* before and every map that existed before as it was (same keys, same     *)
(* values, so a.Get(k) is as before, and the map a was built from is       *)
(* unchanged), and b has every entry of a and k -> v.  So after any        *)
(* sequence of With calls no container sees an entry written through       *)
(* another.                                                                *)
(***************************************************************************)
C24_CopyOnWrite ==
    [][/\ \A i \in DOMAIN advs :
            /\ advs'[i] = advs[i]
            /\ AdvEntries(maps', advs'[i]) = AdvEntries(maps, advs[i])
            /\ \A key \in AdvKeys :
                  AdvArgsGet(maps', advs'[i], key) = AdvArgsGet(maps, advs[i], key)
       /\ \A r \in DOMAIN maps : maps'[r] = maps[r]
       /\ Len(advs') = Len(advs) + 1
       /\ \E i \in DOMAIN advs, key \in AdvKeys, value \in AdvValues :
            AdvEntries(maps', advs'[Len(advs')]) =
                MapSet(AdvEntries(maps, advs[i]), key, value)]_vars

\* C24: a was built from a map with the entry k -> x; b := a.With(k, y) and
\* c := b.With(when, x) were made; a and its map still have k -> x only, b
\* has k -> y only, and c has both entries of b's line
C24_Witness ==
    /\ Len(advs) = 3
    /\ maps[1] = {<<<<"k">>, <<"x">>>>}
    /\ AdvArgsRaw(advs[1]) = 1
    /\ AdvEntries(maps, advs[1]) = {<<<<"k">>, <<"x">>>>}
    /\ AdvEntries(maps, advs[2]) = {<<<<"k">>, <<"y">>>>}
    /\ AdvEntries(maps, advs[3]) = {<<<<"k">>, <<"y">>>>, <<<<"w","h","e","n">>, <<"x">>>>}

\* C24: a was built from the nil map and b := a.With(k, x) was made: a
\* still has no map and no entry
C24_WitnessNil ==
    /\ Len(advs) >= 2
    /\ AdvArgsRaw(advs[1]) = NilMap
    /\ AdvArgsGet(maps, advs[1], <<"k">>) = <<>>
    /\ AdvArgsGet(maps, advs[2], <<"k">>) = <<"x">>

(***************************************************************************)
(* JSON values as arguments: where the value ends                          *)
(***************************************************************************)
MaxJSONMembers == 2

\* members of a JSON object: a number, strings holding "}" , "{", an
\* escaped quote before "}", an escaped backslash before the closing quote,
\* an empty object, an object with "}" in a string, and "}" in a key
JSONMemberTexts ==
    {<<"\"","a","\"",":","1">>,
     <<"\"","a","\"",":","\"","}","\"">>,
     <<"\"","b","\"",":","\"","{","\"">>,
     <<"\"","b","\"",":","\"","\\","\"","}","\"">>,
     <<"\"","a","\"",":","\"","\\","\\","\"">>,
     <<"\"","b","\"",":","{","}">>,
     <<"\"","a","\"",":","{","\"","b","\"",":","\"","}","\"","}">>,
     <<"\"","}","\"",":","1">>}

\* the text between the first "{" and the last "}" of an object
RECURSIVE JoinMembers(_)
JoinMembers(ms) ==
    IF Len(ms) = 0 THEN <<>>
    ELSE IF Len(ms) = 1 THEN ms[1]
    ELSE ms[1] \o <<",">> \o JoinMembers(Tail(ms))

JSONBodies ==
    {JoinMembers(ms) : ms \in UNION {[1..n -> JSONMemberTexts] : n \in 0..MaxJSONMembers}}

\* what follows the value: nothing, a letter, braces, a quote
JSONRests == {<<>>, <<"x">>, <<"}">>, <<"{">>, <<"\"","}">>, <<"}","x">>}

\* "**c:" and an object, closed and followed by a rest, or left open
JSONScripts ==
    {CmdC \o <<":", SymJSONStart>> \o b \o <<SymJSONEnd>> \o r : b \in JSONBodies, r \in JSONRests}
        \cup {CmdC \o <<":", SymJSONStart>> \o b : b \in JSONBodies}

InitJSONEnd == InitWith(JSONScripts)

SpecJSONEnd == InitJSONEnd /\ [][Next]_vars

\* the index in t, the text after the opening "{", of the "}" that brings
\* the depth back to zero, or 0 when the text ends before; a "{" or "}"
\* between double quotes does not count, and a character after a backslash
\* is passed over
RECURSIVE JSONClose(_, _, _, _, _)
JSONClose(t, i, depth, inStr, esc) ==
    IF depth = 0 THEN i - 1
    ELSE IF i > Len(t) THEN 0
    ELSE IF esc THEN JSONClose(t, i + 1, depth, inStr, FALSE)
    ELSE IF t[i] = "\\" THEN JSONClose(t, i + 1, depth, inStr, TRUE)
    ELSE IF t[i] = "\"" THEN JSONClose(t, i + 1, depth, ~inStr, FALSE)
    ELSE IF ~inStr /\ t[i] = "{" THEN JSONClose(t, i + 1, depth + 1, inStr, FALSE)
    ELSE IF ~inStr /\ t[i] = "}" THEN JSONClose(t, i + 1, depth - 1, inStr, FALSE)
    ELSE JSONClose(t, i + 1, depth, inStr, FALSE)

\* the text after "**c:{"
JSONAfterStart == SubSeq(input, 6, Len(input))

JSONCloseAt == JSONClose(JSONAfterStart, 1, 1, FALSE, FALSE)

(***************************************************************************)
(* C25: the JSON value that starts with "{" ends exactly at the "}" that   *)
(* brings the brace depth back to zero, braces between unescaped double    *)
(* quotes not counted: the argument is the value up to that "}", as        *)
(* encoding/json writes it again, followed by the characters after it,     *)
(* which are ordinary content.  When the input ends before the depth is    *)
(* zero, ParseScript fails with ErrInvalidJSON.                            *)
(***************************************************************************)
C25_JSONExtent ==
    Parsed =>
        IF JSONCloseAt = 0 THEN script.err = ErrInvalidJSON
        ELSE With(jsonRoundTrip(<<SymJSONStart>> \o SubSeq(JSONAfterStart, 1, JSONCloseAt)),
                  LAMBDA j :
             /\ j.ok
             /\ script.err = nil
             /\ script.Cmds =
                  <<Cmd(<<"c">>,
                        <<j.out \o SubSeq(JSONAfterStart, JSONCloseAt + 1,
                                          Len(JSONAfterStart))>>)>>)

\* C25: **c:{"a":{"b":"}"},"b":"\"}"}}x : the value ends at the third "}"
\* outside a string, and "}x" is content after it
C25_Witness ==
    /\ Parsed
    /\ input = CmdC \o <<":">> \o <<"{","\"","a","\"",":","{","\"","b","\"",":","\"","}","\"","}",",","\"","b","\"",":","\"","\\","\"","}","\"","}">> \o <<"}", "x">>
    /\ script.err = nil
    /\ script.Cmds = <<Cmd(<<"c">>, <<<<"{","\"","a","\"",":","{","\"","b","\"",":","\"","}","\"","}",",","\"","b","\"",":","\"","\\","\"","}","\"","}">> \o <<"}", "x">>>>)>>

\* C25: **c:{"a":"}" : the only "}" is inside a string, the input ends at
\* depth one, and the error is ErrInvalidJSON
C25_WitnessOpen ==
    /\ Parsed
    /\ input = CmdC \o <<":">> \o <<"{","\"","a","\"",":","\"","}","\"">>
    /\ script.err = ErrInvalidJSON

(***************************************************************************)
(* The cursor during a parse                                               *)
(***************************************************************************)
\* the reader a call left behind is within its input
CursorInBounds(sr) == sr.pos \in 0..Len(sr.in) /\ sr.in = input

(***************************************************************************)
(* C26: every call of ParseScript, ParseExpressions and EvalExpressions    *)
(* returns; the position of the reader stays between 0 and the number of   *)
(* runes of the input and the input is not changed; and an unread is only  *)
(* issued directly after a read that returned a rune, never after a peek   *)
(* and never after the end of the input, so no call ends with the failure  *)
(* of an unread.                                                           *)
(***************************************************************************)
C26_CursorDiscipline ==
    /\ Parsed => script.err # errUnreadRune
    /\ phase = "value" =>
          (traitValue.err # errUnreadRune /\ CursorInBounds(traitValue.sr))
    /\ phase = "expressions" =>
          (expressions.err # errUnreadRune /\ CursorInBounds(expressions.sr))
    /\ phase = "evaluated" => evaluated.err # errUnreadRune

(***************************************************************************)
(* Chains of segments that parse on their own                              *)
(***************************************************************************)
MaxIndepSegs == 3

\* an explicit command, a media title, an "@" text that is no media title,
\* a name with an invalid character, a single "*", and auto-launch text
IndepSegs ==
    {<<"*","*","c",":","x">>, <<"@","s","/","t">>, <<"@","a">>,
     <<"*","*","a","@","x">>, <<"*","*","a","@">>, <<"*","x">>, <<"y">>}

InitIndep ==
    InitWith({JoinChain(segs) :
                segs \in UNION {[1..n -> IndepSegs] : n \in 1..MaxIndepSegs}})

SpecIndep == InitIndep /\ [][Next]_vars

\* the commands of the segments, each parsed on its own, one after another
RECURSIVE IndepCmds(_)
IndepCmds(segs) ==
    IF segs = <<>> THEN <<>>
    ELSE ParseScript(Head(segs)).Cmds \o IndepCmds(Tail(segs))

(***************************************************************************)
(* C27: chain segments are parsed independently: when every segment        *)
(* parses on its own, the chain of them parses to the commands of the      *)
(* first, then those of the second, and so on; no scanner reads past the   *)
(* "||" that ends its segment, also when the segment takes a fallback      *)
(* path (an "@" text that is no media title, a "**" name with an invalid   *)
(* character).                                                             *)
(***************************************************************************)
C27_SegmentsIndependent ==
    Parsed =>
        /\ script.err = nil
        /\ script.Cmds = IndepCmds(SplitChain(input, <<>>))

(***************************************************************************)
(* Input-macro commands whose name is written in capitals                  *)
(***************************************************************************)
MaxCaseLen == 2

\* input.keyboard and input.gamepad: in lower case, in capitals, with a
\* capital first letter, and with the second word in capitals
CaseNames ==
    {<<"i","n","p","u","t",".","k","e","y","b","o","a","r","d">>,
     <<"I","N","P","U","T",".","K","E","Y","B","O","A","R","D">>,
     <<"I","n","p","u","t",".","k","e","y","b","o","a","r","d">>,
     <<"i","n","p","u","t",".","K","E","Y","B","O","A","R","D">>,
     <<"i","n","p","u","t",".","g","a","m","e","p","a","d">>,
     <<"I","N","P","U","T",".","G","A","M","E","P","A","D">>,
     <<"I","n","p","u","t",".","g","a","m","e","p","a","d">>,
     <<"i","n","p","u","t",".","G","A","M","E","P","A","D">>}

\* "**name:content" and "**name:content?delay=1"
CaseScripts ==
    {<<SymCmdStart, SymCmdStart>> \o n \o <<SymArgStart>> \o t \o adv :
        n \in CaseNames,
        t \in Texts({<<"a">>, <<"B">>}, 0, MaxCaseLen),
        adv \in {<<>>, <<"?","d","e","l","a","y","=","1">>}}

InitCase == InitWith(CaseScripts)

SpecCase == InitCase /\ [][Next]_vars

\* the input with its command name in lower case
CaseLowered ==
    With(Index(input, SymArgStart), LAMBDA i :
        ToLower(SubSeq(input, 1, i)) \o SubSeq(input, i + 1, Len(input)))

(***************************************************************************)
(* C28: the scanner is chosen whatever the case of the command name: for   *)
(* every casing of input.keyboard and input.gamepad ParseScript returns    *)
(* the Script it returns for the name in lower case: the name in lower     *)
(* case, and one argument for each character of the content.               *)
(***************************************************************************)
C28_MacroModeAnyCase ==
    Parsed =>
        /\ script = ParseScript(CaseLowered)
        /\ script.err = nil
        /\ Len(script.Cmds) = 1
        /\ script.Cmds[1].Name \in {ZapScriptCmdInputKeyboard, ZapScriptCmdInputGamepad}


(***************************************************************************)
(* Marker runes in the authored text                                       *)
(***************************************************************************)
MaxMarkerAtoms == 4

\* plain text, the two marker runes written by the author, and whole
\* expressions
MarkerAtoms ==
    {<<"x">>, <<"a">>, <<TokExpStart>>, <<TokExprEnd>>,
     <<"[","[","a","]","]">>, <<"[","[","b","]","]">>}

InitMarker == InitWith(Texts(MarkerAtoms, 1, MaxMarkerAtoms))

SpecMarker == InitMarker /\ [][Next]_vars

\* the position of the first "]]" of t at or after i
SpanClose(t, i) ==
    CHOOSE j \in i..(Len(t) - 1) :
        /\ t[j] = SymExpressionEnd /\ t[j + 1] = SymExpressionEnd
        /\ \A k \in i..(j - 1) :
               ~(t[k] = SymExpressionEnd /\ t[k + 1] = SymExpressionEnd)

\* the texts that stand between "[[" and "]]" in t, from position i on
RECURSIVE AuthoredSpans(_, _)
AuthoredSpans(t, i) ==
    IF i >= Len(t) THEN <<>>
    ELSE IF t[i] = SymExpressionStart /\ t[i + 1] = SymExpressionStart
    THEN <<SubSeq(t, i + 2, SpanClose(t, i + 2) - 1)>>
         \o AuthoredSpans(t, SpanClose(t, i + 2) + 2)
    ELSE AuthoredSpans(t, i + 1)

\* the number of marker runes of t
RECURSIVE MarkerCount(_)
MarkerCount(t) ==
    IF t = <<>> THEN 0
    ELSE (IF Head(t) \in {TokExpStart, TokExprEnd} THEN 1 ELSE 0)
         + MarkerCount(Tail(t))

\* the texts EvalExpressions hands to the expression engine when it is
\* given t: the values of its expression parts
RECURSIVE ExpressionValues(_)
ExpressionValues(parts) ==
    IF parts = <<>> THEN <<>>
    ELSE (IF Head(parts).Type = ArgPartTypeExpression
          THEN <<Head(parts).Value>> ELSE <<>>)
         \o ExpressionValues(Tail(parts))

EngineTexts(t) ==
    With(evalPartsLoop(NewParser(t)), LAMBDA ps :
    IF ps.err # nil THEN <<>> ELSE ExpressionValues(ps.parts))

(***************************************************************************)
(* C29: the text ParseExpressions returns holds U+E000 and U+E001 only as  *)
(* the two delimiters of each "[[...]]" span of the input, and the texts   *)
(* EvalExpressions hands to the expression engine, given that text, are    *)
(* the texts that stood between "[[" and "]]" in the input, in order,      *)
(* whatever other characters the input contains.                           *)
(***************************************************************************)
C29_MarkersOnlyInserted ==
    /\ (phase = "expressions" /\ expressions.err = nil) =>
          /\ MarkerCount(expressions.val) = 2 * Len(AuthoredSpans(input, 1))
          /\ MarkersBalanced(expressions.val, FALSE)
    /\ (phase = "evaluated" /\ ParseExpressions(input).err = nil
          /\ evaluated.text = ParseExpressions(input).val) =>
          /\ evaluated.err # ErrUnmatchedExpression
          /\ EngineTexts(evaluated.text) = AuthoredSpans(input, 1)


(***************************************************************************)
(* U+0000 inside the input                                                 *)
(***************************************************************************)
MaxNulLen == 4

\* plain text of ordinary runes and U+0000
NulTexts == Texts({<<"a">>, <<"b">>, <<NUL>>}, 1, MaxNulLen)

\* the command "**a:" in front of a text
NulCmdPrefix == <<"*", "*", "a", ":">>

\* the plain texts alone, and each as the argument of a command
InitNul == InitWith(NulTexts \cup {NulCmdPrefix \o t : t \in NulTexts})

SpecNul == InitNul /\ [][Next]_vars

IsNulCmd == Len(input) > 4 /\ SubSeq(input, 1, 4) = NulCmdPrefix

\* the text that is the one argument of the input
NulArg == IF IsNulCmd THEN SubSeq(input, 5, Len(input)) ELSE input

HasNul(t) == \E i \in 1..Len(t) : t[i] = NUL

(***************************************************************************)
(* C30: a U+0000 rune inside the input is ordinary content and ends        *)
(* nothing early.  When ParseExpressions succeeds on plain text, it has    *)
(* read every rune and returns the text; EvalExpressions returns text      *)
(* without markers whole; when ParseScript succeeds on plain text or on    *)
(* "**a:" followed by plain text, the result is one command whose one      *)
(* argument is the whole text.                                             *)
(***************************************************************************)
C30_NulIsContent ==
    /\ (phase = "expressions" /\ expressions.err = nil /\ ~IsNulCmd) =>
          /\ expressions.sr.pos = Len(input)
          /\ expressions.val = input
    /\ (phase = "evaluated" /\ evaluated.err = nil /\ ~IsNulCmd) =>
          evaluated.val = evaluated.text
    /\ Succeeded =>
          /\ Len(script.Cmds) = 1
          /\ script.Cmds[1].Name = (IF IsNulCmd THEN <<"a">> ELSE ZapScriptCmdLaunch)
          /\ script.Cmds[1].Args = <<NulArg>>

====
